---- MODULE Spec2Model ----
(***************************************************************************)
(* Session orchestration of telegram_streamer: the TelegramStreamer        *)
(* registry (streamer.py), the StreamSession record (models.py) and the    *)
(* ReconnectionManager (reconnection.py), as cooperatively scheduled       *)
(* coroutines.  A step of the model is the code a coroutine runs between   *)
(* two awaits; an in-flight coroutine is a record of `calls` (API calls)   *)
(* or of `tasks` (retry loops) that names the await it is suspended on.    *)
(***************************************************************************)
EXTENDS Integers, Sequences, FiniteSets, TLC

\* ---------------------------------------------------------------- bounds
MaxSessions == 2          \* StreamSession objects ever created
OneSession == 1           \* ... in the workloads that follow one session
NumChats == 2             \* distinct chat ids
NumIds == 2               \* distinct values of str(uuid.uuid4())[:8]
MaxClock == 2             \* readings of datetime.utcnow()
MaxCalls == 2             \* API coroutines suspended at the same time
MaxErrors == 2            \* cap on error_count
MaxTasks == 2             \* retry-loop tasks alive at the same time
OneTask == 1              \* ... in the workloads with API calls in flight
OneCall == 1              \* ... in the workload where calls follow one another
ReconnectMaxAttempts == 2 \* settings.reconnect_max_attempts
MaxMonTasks == 2          \* _monitor_loop tasks ever alive at the same time
MaxProcs == 2             \* ffmpeg subprocesses a wrapper creates
MaxReaders == 2           \* read_stream() generators a wrapper hands out
MaxChunks == 2            \* chunks a subprocess writes
RecursionLimit == 3       \* depth at which the interpreter raises RecursionError
FfmpegThreads == 2        \* settings.ffmpeg_threads

Chats == 1..NumChats
Ids == 1..NumIds
Profiles == {"AUTO", "P720"}   \* members of TranscodeProfile a caller passes
Sources == {"hls", "youtube"}
None == 0                 \* Python None for ids, objects and timestamps > 0
NoTime == -1

Occupying == {"STREAMING", "CONNECTING", "RECONNECTING"}
Terminal == {"STOPPED", "ERROR"}

VARIABLES
    started,      \* TelegramStreamer._started
    client,       \* TelegramStreamer._client is not None
    tgcalls,      \* TelegramStreamer._tgcalls is not None
    objs,         \* heap of StreamSession objects, in allocation order
    keys,         \* keys of TelegramStreamer._sessions, in insertion order
    reg,          \* TelegramStreamer._sessions: key -> index into objs
    calls,        \* suspended API coroutines
    now,          \* datetime.utcnow()
    active,       \* ReconnectionManager._active
    wiring,       \* what ReconnectionManager._start_stream is bound to
    tasks,        \* asyncio tasks running _reconnect_loop, by slot
    rtasks,       \* ReconnectionManager._reconnect_tasks: session id -> slot
    enabled,      \* settings.reconnect_enabled
    cap,          \* the workload: how many sessions the callers create and
                  \* how many retry loops and API coroutines are in flight
    ev,           \* what the step just taken returned, raised or asked
                  \* of the call transport
    monitor_active,  \* HealthMonitor._active
    monitor_task, \* HealthMonitor._monitor_task: slot of the task, or None
    mtasks,       \* asyncio tasks running _monitor_loop, by slot
    running,      \* FFmpegWrapper._running
    process,      \* FFmpegWrapper._process: the subprocess, or None
    procs,        \* the ffmpeg subprocesses the wrapper has created
    readers,      \* the async generators read_stream() has returned
    yielded,      \* the chunks the generators have yielded, in order
    monitored,    \* HealthMonitor._sessions: keys in insertion order
    down,         \* the sessions whose stream has in fact broken down
    url,          \* the url handed to StreamSource.detect_type
    source,       \* the StreamSource it returned
    wrapper,      \* source kind and profile of the FFmpegWrapper
    cmd           \* what build_command returned or raised

vars == <<started, client, tgcalls, objs, keys, reg, calls, now, active,
          wiring, tasks, rtasks, enabled, cap, ev,
          monitor_active, monitor_task, mtasks, running, process, procs,
          readers, yielded, monitored, down, url, source, wrapper, cmd>>

regVars == <<started, client, tgcalls, keys, reg>>
mgrVars == <<active, tasks, rtasks>>
cfgVars == <<wiring, enabled, cap>>
monVars == <<monitor_active, monitor_task, mtasks>>
ffVars == <<running, process, procs>>
rdVars == <<readers, yielded>>
hmVars == <<monitored, down>>
fnVars == <<url, source, wrapper, cmd>>
auxVars == <<rdVars, hmVars, fnVars>>
sideVars == <<monVars, ffVars, auxVars>>

\* TranscodeProfile(str, Enum): profile.value
ProfileValue(p) ==
    CASE p = "AUTO" -> "auto"
      [] p = "P480" -> "480p"
      [] p = "P720" -> "720p"
      [] p = "P1080" -> "1080p"

\* ------------------------------------------------------- StreamSession
\* StreamSession.source is written once and read by no operation modelled
\* here; the source kind lives in the start_stream call that uses it.
NewSession(i, c, p) ==
    [id |-> i, chat_id |-> c, profile |-> p,
     status |-> "PENDING", started_at |-> NoTime, stopped_at |-> NoTime,
     reconnect_attempts |-> 0, last_error |-> "", error_count |-> 0,
     bytes_streamed |-> 0, frames_sent |-> 0]

\* mark_streaming without the assignment of started_at
mark_streaming_KeepsStartedAt(s, t) ==
    [s EXCEPT !.status = "STREAMING", !.reconnect_attempts = 0]

mark_streaming(s, t) ==
    [s EXCEPT !.status = "STREAMING", !.started_at = t,
              !.reconnect_attempts = 0]

\* mark_reconnecting that starts the count again
mark_reconnecting_SetsOne(s) ==
    [s EXCEPT !.status = "RECONNECTING", !.reconnect_attempts = 1]

mark_reconnecting(s) ==
    [s EXCEPT !.status = "RECONNECTING",
              !.reconnect_attempts = s.reconnect_attempts + 1]

\* mark_error without the increment of error_count
mark_error_KeepsCount(s, e) ==
    [s EXCEPT !.status = "ERROR", !.last_error = e]

mark_error(s, e) ==
    [s EXCEPT !.status = "ERROR", !.last_error = e,
              !.error_count = s.error_count + 1]

mark_stopped(s, t) ==
    [s EXCEPT !.status = "STOPPED", !.stopped_at = t]

duration_seconds(s, t) ==
    IF s.started_at = NoTime THEN 0
    ELSE (IF s.stopped_at = NoTime THEN t ELSE s.stopped_at) - s.started_at

\* ----------------------------------------------------------- helpers
\* op returned or raised val (about session object obj), or returned the
\* list of session objects list; tfn is the call transport function the
\* step invoked on chat tchat, if any.
Ev(op, arg, val, o, tfn, tchat) ==
    [op |-> op, arg |-> arg, val |-> val, obj |-> o, tfn |-> tfn,
     tchat |-> tchat, list |-> <<>>]
NoEv == Ev("none", None, "", None, "", None)
Ret(op, arg, val, o) == Ev(op, arg, val, o, "", None)
Transport(tfn, c) == Ev("none", None, "", None, tfn, c)

Call(op, pc, o, c, src, p, rem, after) ==
    [op |-> op, pc |-> pc, obj |-> o, chat |-> c, source |-> src,
     profile |-> p, rem |-> rem, after |-> after, id |-> None, task |-> None,
     proc |-> None]

\* A coroutine that has created its session but not yet run on to its next
\* await holds the event loop: nothing else is scheduled in between.
Running == \E c \in calls : c.pc = "created"
\* An event is handed to its observer (the caller, the transport) before
\* the next coroutine is scheduled.
Idle == ~Running /\ ev = NoEv
CanSuspend == Cardinality(calls) < cap.calls

SetObj(o, s) == [objs EXCEPT ![o] = s]

\* the retry-loop task at work on session object o, None without one
LoopOf(o) ==
    IF \E t \in DOMAIN tasks : tasks[t].pc # "done" /\ tasks[t].obj = o
    THEN CHOOSE t \in DOMAIN tasks : tasks[t].pc # "done" /\ tasks[t].obj = o
    ELSE None

\* TelegramStreamer.get_session
get_session(i) == IF i \in DOMAIN reg THEN reg[i] ELSE None

\* Ids and chat ids carry no meaning but equality: a uuid is a key of the
\* registry or a value not seen before, and of those the least stands for
\* all; likewise for the chat a caller names.
Least(S) == IF S = {} THEN {} ELSE {CHOOSE x \in S : \A y \in S : x <= y}
UuidValues == DOMAIN reg \cup Least(Ids \ DOMAIN reg)
UsedChats == {objs[o].chat_id : o \in DOMAIN objs} \cup {c.chat : c \in calls}
ChatValues == (UsedChats \cap Chats) \cup Least(Chats \ UsedChats)

\* the scan with RECONNECTING left out of the tuple of line 216
ChatOccupied_SkipsReconnecting(c) ==
    \E i \in DOMAIN reg :
        /\ objs[reg[i]].chat_id = c
        /\ objs[reg[i]].status \in {"STREAMING", "CONNECTING"}

\* the scan of start_stream for a session that occupies the chat
ChatOccupied(c) ==
    \E i \in DOMAIN reg :
        objs[reg[i]].chat_id = c /\ objs[reg[i]].status \in Occupying

Range(q) == {q[k] : k \in DOMAIN q}

\* --------------------------------------------- TelegramStreamer.start_stream
\* str(e) of an exception raised by a collaborator: its text is not the
\* program's, one value stands for all of them
StrE == "str(e)"

\* except ... : session.mark_error(str(e)); raise
StartFail(c, o, val) ==
    /\ objs[o].error_count < MaxErrors
    /\ objs' = SetObj(o, mark_error(objs[o], StrE))
    /\ calls' = calls \ {c}
    /\ ev' = Ret("start_stream", c.chat, val, o)

\* MediaStream(...) built, then await self._tgcalls.play(chat_id, media)
StartPlay(c, d, o, os) ==
    IF tgcalls
    THEN /\ objs' = os
         /\ calls' = (calls \ {c}) \cup {[d EXCEPT !.pc = "play", !.obj = o]}
         /\ ev' = Transport("play", c.chat)
    ELSE \* self._tgcalls is None: AttributeError, caught by except Exception
         /\ os[o].error_count < MaxErrors
         /\ objs' = [os EXCEPT ![o] = mark_error(os[o], StrE)]
         /\ calls' = calls \ {c}
         /\ ev' = Ret("start_stream", c.chat, "StreamConnectionError:failed", o)

\* lines 214-234: the occupancy scan, then the session is created PENDING
\* under a fresh str(uuid.uuid4())[:8] and stored in _sessions.
\* The profile and the source url are arguments of the call that nothing
\* reads before the session is built and before _prepare_stream_url: the
\* model draws each where the code first reads it.
StartCreate(c, rest) ==
    IF ChatOccupied(c.chat)
    THEN /\ calls' = rest
         /\ ev' = Ret("start_stream", c.chat, "StreamConnectionError:already", None)
         /\ UNCHANGED <<objs, keys, reg>>
    ELSE /\ Len(objs) < cap.sessions
         /\ Cardinality(rest) < cap.calls
         /\ \E i \in UuidValues, p \in Profiles :
              /\ objs' = Append(objs, NewSession(i, c.chat, ProfileValue(p)))
              /\ keys' = IF i \in DOMAIN reg THEN keys ELSE Append(keys, i)
              /\ reg' = [k \in DOMAIN reg \cup {i} |->
                            IF k = i THEN Len(objs) + 1 ELSE reg[k]]
              /\ calls' = rest \cup
                    {[c EXCEPT !.pc = "created", !.obj = Len(objs) + 1,
                               !.profile = p]}
         /\ ev' = NoEv

\* lines 208-212: the started check and _resolve_chat_id; an int identifier
\* is returned as is, a username or link awaits client.get_chat.
StartStream(ch, byName) ==
    /\ Idle
    /\ LET c == Call("start_stream", "resolve", None, ch, "", "", <<>>, "") IN
       IF ~started
       THEN /\ ev' = Ret("start_stream", ch, "StreamConnectionError:not started", None)
            /\ UNCHANGED <<objs, keys, reg, calls>>
       ELSE IF ~client
       THEN /\ ev' = Ret("start_stream", ch, "StreamConnectionError:no client", None)
            /\ UNCHANGED <<objs, keys, reg, calls>>
       ELSE IF byName
       THEN /\ CanSuspend
            /\ calls' = calls \cup {c}
            /\ ev' = NoEv
            /\ UNCHANGED <<objs, keys, reg>>
       ELSE StartCreate(c, calls)
    /\ UNCHANGED <<started, client, tgcalls, now, mgrVars, cfgVars, sideVars>>

\* client.get_chat returns (lines 164-165) or raises (lines 167-170)
StartResolved(c, ok) ==
    /\ Idle
    /\ c \in calls /\ c.op = "start_stream" /\ c.pc = "resolve"
    /\ IF ok
       THEN StartCreate(c, calls \ {c})
       ELSE /\ calls' = calls \ {c}
            /\ ev' = Ret("start_stream", c.chat, "ChatNotFoundError", None)
            /\ UNCHANGED <<objs, keys, reg>>
    /\ UNCHANGED <<started, client, tgcalls, now, mgrVars, cfgVars, sideVars>>

\* lines 244-264: status = CONNECTING, _prepare_stream_url, tgcalls.play
StartConnecting(c, src) ==
    /\ c \in calls /\ c.op = "start_stream" /\ c.pc = "created"
    /\ LET o == c.obj
           os == SetObj(o, [objs[o] EXCEPT !.status = "CONNECTING"]) IN
       IF src = "youtube"
       THEN /\ objs' = os
            /\ calls' = (calls \ {c}) \cup
                  {[c EXCEPT !.pc = "youtube", !.source = src]}
            /\ ev' = NoEv
       ELSE StartPlay(c, [c EXCEPT !.source = src], o, os)
    /\ UNCHANGED <<regVars, now, mgrVars, cfgVars, sideVars>>

\* resolve_youtube_url returns the direct url or raises StreamSourceError
StartYoutubeDone(c, ok) ==
    /\ Idle
    /\ c \in calls /\ c.op = "start_stream" /\ c.pc = "youtube"
    /\ IF ok THEN StartPlay(c, c, c.obj, objs)
       ELSE StartFail(c, c.obj, "StreamConnectionError:failed")
    /\ UNCHANGED <<regVars, now, mgrVars, cfgVars, sideVars>>

\* lines 266-288: tgcalls.play returned or raised
StartPlayDone(c, outcome) ==
    /\ Idle
    /\ c \in calls /\ c.op = "start_stream" /\ c.pc = "play"
    /\ CASE outcome = "ok" ->
              /\ objs' = SetObj(c.obj, mark_streaming(objs[c.obj], now))
              /\ calls' = calls \ {c}
              /\ ev' = Ret("start_stream", c.chat, "session", c.obj)
         [] outcome = "perm" ->
              StartFail(c, c.obj, "PermissionError")
         [] outcome = "fail" ->
              StartFail(c, c.obj, "StreamConnectionError:failed")
    /\ UNCHANGED <<regVars, now, mgrVars, cfgVars, sideVars>>

\* --------------------------------------------- TelegramStreamer.stop_stream
\* self._sessions[session_id] in place of .get: KeyError for an unknown id
StopUnknown_Raises(i) ==
    /\ ev' = Ret("stop_stream", i, "KeyError", None)
    /\ UNCHANGED <<objs, calls>>

\* lines 299-302: no session under the id, return False
StopUnknown(i) ==
    /\ ev' = Ret("stop_stream", i, "False", None)
    /\ UNCHANGED <<objs, calls>>

\* lines 299-319.  _reconnect_tasks and _ffmpeg_processes of the streamer
\* are never written anywhere in the package, so both membership tests are
\* false; with a transport the coroutine suspends on leave_call.  The call
\* keeps, for the properties only, the manager's retry loop that was at work
\* on the session when stop_stream was called: no step reads it.
StopStream(i) ==
    /\ Idle
    /\ IF i \notin DOMAIN reg
       THEN StopUnknown(i)
       ELSE LET o == reg[i] IN
            IF tgcalls
            THEN /\ CanSuspend
                 /\ calls' = calls \cup
                      {[Call("stop_stream", "leave", o, objs[o].chat_id,
                             "", "", <<>>, "")
                        EXCEPT !.task = LoopOf(o)]}
                 /\ ev' = Transport("leave_call", objs[o].chat_id)
                 /\ UNCHANGED objs
            ELSE /\ objs' = SetObj(o, mark_stopped(objs[o], now))
                 /\ ev' = Ret("stop_stream", i, "True", o)
                 /\ UNCHANGED calls
    /\ UNCHANGED <<regVars, now, mgrVars, cfgVars, sideVars>>

\* lines 320-330: leave_call returned or raised (the exception is only
\* logged); session.mark_stopped(); return True
StopLeaveDone(c) ==
    /\ Idle
    /\ c \in calls /\ c.op = "stop_stream" /\ c.pc = "leave"
    /\ objs' = SetObj(c.obj, mark_stopped(objs[c.obj], now))
    /\ calls' = calls \ {c}
    /\ ev' = Ret("stop_stream", objs[c.obj].id, "True", c.obj)
    /\ UNCHANGED <<regVars, now, mgrVars, cfgVars, sideVars>>

\* ------------------------------- TelegramStreamer.pause_stream / resume_stream
\* lines 341-347 and 365-371: the status test, then the transport call
PauseResume(op, i, from, tfn) ==
    /\ Idle
    /\ IF i \notin DOMAIN reg \/ ~tgcalls
       THEN /\ ev' = Ret(op, i, "False", None)
            /\ UNCHANGED calls
       ELSE LET o == reg[i] IN
            IF objs[o].status # from
            THEN /\ ev' = Ret(op, i, "False", o)
                 /\ UNCHANGED calls
            ELSE /\ CanSuspend
                 /\ calls' = calls \cup
                      {Call(op, "transport", o, objs[o].chat_id, "", "", <<>>, "")}
                 /\ ev' = Transport(tfn, objs[o].chat_id)
    /\ UNCHANGED <<regVars, objs, now, mgrVars, cfgVars, sideVars>>

\* the status assigned ahead of the transport call, so also when it raises
PauseResumeDone_AssignsOnFailure(c, op, to, ok) ==
    /\ Idle
    /\ c \in calls /\ c.op = op /\ c.pc = "transport"
    /\ objs' = SetObj(c.obj, [objs[c.obj] EXCEPT !.status = to])
    /\ ev' = Ret(op, objs[c.obj].id, IF ok THEN "True" ELSE "False", c.obj)
    /\ calls' = calls \ {c}
    /\ UNCHANGED <<regVars, now, mgrVars, cfgVars, sideVars>>

\* lines 348-354 and 372-378: the transport call returned (the status is
\* assigned) or raised (logged, return False)
PauseResumeDone(c, op, to, ok) ==
    /\ Idle
    /\ c \in calls /\ c.op = op /\ c.pc = "transport"
    /\ IF ok
       THEN /\ objs' = SetObj(c.obj, [objs[c.obj] EXCEPT !.status = to])
            /\ ev' = Ret(op, objs[c.obj].id, "True", c.obj)
       ELSE /\ ev' = Ret(op, objs[c.obj].id, "False", c.obj)
            /\ UNCHANGED objs
    /\ calls' = calls \ {c}
    /\ UNCHANGED <<regVars, now, mgrVars, cfgVars, sideVars>>

PauseStream(i) == PauseResume("pause_stream", i, "STREAMING", "pause_stream")
PauseDone(c, ok) == PauseResumeDone(c, "pause_stream", "PAUSED", ok)
ResumeStream(i) == PauseResume("resume_stream", i, "PAUSED", "resume_stream")
ResumeDone(c, ok) == PauseResumeDone(c, "resume_stream", "STREAMING", ok)

\* ------------------------------------------ TelegramStreamer.start / stop
\* lines 133-142: client.stop(), then _client = None and _started = False;
\* a stop() run by a failed start() ends in the AuthenticationError.
ShutdownClient(after, rest, os, tg) ==
    /\ objs' = os
    /\ tgcalls' = tg
    /\ IF client
       THEN /\ calls' = rest \cup
                 {Call("stop", "clientStop", None, None, "", "", <<>>, after)}
            /\ ev' = NoEv
            /\ UNCHANGED <<started, client>>
       ELSE /\ calls' = rest
            /\ started' = FALSE
            /\ ev' = IF after = "raise"
                     THEN Ret("start", None, "AuthenticationError", None)
                     ELSE Ret("stop", None, "None", None)
            /\ UNCHANGED client

\* lines 116-131: stop_stream for every key of the snapshot, the (empty)
\* _reconnect_tasks cancelled, then tgcalls.stop().  Without a transport
\* stop_stream never suspends and the remaining sessions are marked one
\* after the other in the same step.
ShutdownLoop(rem, after, rest, os) ==
    IF rem # <<>> /\ tgcalls
    THEN LET o == reg[Head(rem)] IN
         /\ objs' = os
         /\ calls' = rest \cup
              {Call("stop", "leave", o, os[o].chat_id, "", "", Tail(rem), after)}
         /\ ev' = Transport("leave_call", os[o].chat_id)
         /\ UNCHANGED <<started, client, tgcalls>>
    ELSE LET os2 == [o \in DOMAIN os |->
                       IF \E k \in Range(rem) : reg[k] = o
                       THEN mark_stopped(os[o], now) ELSE os[o]] IN
         IF tgcalls
         THEN /\ objs' = os2
              /\ calls' = rest \cup
                   {Call("stop", "tgStop", None, None, "", "", <<>>, after)}
              /\ ev' = NoEv
              /\ UNCHANGED <<started, client, tgcalls>>
         ELSE ShutdownClient(after, rest, os2, tgcalls)

RegStop ==
    /\ Idle /\ CanSuspend
    /\ ShutdownLoop(keys, "return", calls, objs)
    /\ UNCHANGED <<keys, reg, now, mgrVars, cfgVars, sideVars>>

\* stop_stream of the loop resumes from leave_call and marks the session
ShutdownLeaveDone(c) ==
    /\ Idle
    /\ c \in calls /\ c.op = "stop" /\ c.pc = "leave"
    /\ ShutdownLoop(c.rem, c.after, calls \ {c},
                    SetObj(c.obj, mark_stopped(objs[c.obj], now)))
    /\ UNCHANGED <<keys, reg, now, mgrVars, cfgVars, sideVars>>

\* tgcalls.stop() returned or raised (logged): _tgcalls = None
ShutdownTgDone(c) ==
    /\ Idle
    /\ c \in calls /\ c.op = "stop" /\ c.pc = "tgStop"
    /\ ShutdownClient(c.after, calls \ {c}, objs, FALSE)
    /\ UNCHANGED <<keys, reg, now, mgrVars, cfgVars, sideVars>>

\* client.stop() returned or raised (logged): _client = None, _started = False
ShutdownClientDone(c) ==
    /\ Idle
    /\ c \in calls /\ c.op = "stop" /\ c.pc = "clientStop"
    /\ client' = FALSE
    /\ started' = FALSE
    /\ calls' = calls \ {c}
    /\ ev' = IF c.after = "raise"
             THEN Ret("start", None, "AuthenticationError", None)
             ELSE Ret("stop", None, "None", None)
    /\ UNCHANGED <<tgcalls, objs, keys, reg, now, mgrVars, cfgVars, sideVars>>

\* lines 65-89: the _started test, the Client is built, await client.start()
RegStart ==
    /\ Idle
    /\ IF started
       THEN /\ ev' = Ret("start", None, "None", None)
            /\ UNCHANGED <<client, calls>>
       ELSE /\ CanSuspend
            /\ client' = TRUE
            /\ calls' = calls \cup
                 {Call("start", "clientStart", None, None, "", "", <<>>, "")}
            /\ ev' = NoEv
    /\ UNCHANGED <<started, tgcalls, objs, keys, reg, now, mgrVars, cfgVars, sideVars>>

\* lines 105-110: AuthKeyUnregistered is raised on; any other exception
\* runs self.stop() first
RegStartFailed(c, outcome) ==
    IF outcome = "authkey"
    THEN /\ calls' = calls \ {c}
         /\ ev' = Ret("start", None, "AuthenticationError", None)
         /\ UNCHANGED <<started, client, tgcalls, objs>>
    ELSE ShutdownLoop(keys, "raise", calls \ {c}, objs)

\* lines 89-100: client.start() and get_me() returned, PyTgCalls is built,
\* await tgcalls.start()
RegStartClientDone(c, outcome) ==
    /\ Idle
    /\ c \in calls /\ c.op = "start" /\ c.pc = "clientStart"
    /\ IF outcome = "ok"
       THEN /\ tgcalls' = TRUE
            /\ calls' = (calls \ {c}) \cup {[c EXCEPT !.pc = "tgStart"]}
            /\ ev' = NoEv
            /\ UNCHANGED <<started, client, objs>>
       ELSE RegStartFailed(c, outcome)
    /\ UNCHANGED <<keys, reg, now, mgrVars, cfgVars, sideVars>>

\* lines 100-103: tgcalls.start() returned: _started = True
RegStartTgDone(c, outcome) ==
    /\ Idle
    /\ c \in calls /\ c.op = "start" /\ c.pc = "tgStart"
    /\ IF outcome = "ok"
       THEN /\ started' = TRUE
            /\ calls' = calls \ {c}
            /\ ev' = Ret("start", None, "None", None)
            /\ UNCHANGED <<client, tgcalls, objs>>
       ELSE RegStartFailed(c, outcome)
    /\ UNCHANGED <<keys, reg, now, mgrVars, cfgVars, sideVars>>

\* ------------------------------------------------- ReconnectionManager
Dead == [pc |-> "done", obj |-> None, attempt |-> 0, cancel |-> FALSE]
Slots == 1..MaxTasks

\* ReconnectionManager.is_reconnecting
is_reconnecting(i) == \E k \in DOMAIN rtasks : rtasks[k].id = i
HasTask(rt, i) == \E k \in DOMAIN rt : rt[k].id = i
TaskOf(rt, i) == (CHOOSE k \in Range(rt) : k.id = i).task
DelTask(rt, i) == SelectSeq(rt, LAMBDA k : k.id # i)

Awaited(t) == \E c \in calls : c.op = "cancel_reconnection" /\ c.task = t
FreeSlot(t) ==
    /\ t <= cap.tasks
    /\ tasks[t].pc = "done"
    /\ ~Awaited(t)
    /\ \A k \in DOMAIN rtasks : rtasks[k].task # t

\* a limit that is reached one attempt late
MaxAttemptsReached_OneLate(s) == s.reconnect_attempts > ReconnectMaxAttempts
\* line 67
MaxAttemptsReached(s) == s.reconnect_attempts >= ReconnectMaxAttempts

\* lines 59-79; err = "" is an error that is None or empty, for which line
\* 64 takes the default
HandleDisconnect(o, err) ==
    /\ Idle
    /\ o \in DOMAIN objs
    /\ LET s == objs[o] IN
       IF ~enabled
       THEN /\ s.error_count < MaxErrors
            /\ objs' = SetObj(o, mark_error(s, IF err = "" THEN "Disconnected" ELSE err))
            /\ UNCHANGED <<tasks, rtasks>>
       ELSE IF MaxAttemptsReached(s)
       THEN /\ s.error_count < MaxErrors
            /\ objs' = SetObj(o, mark_error(s, "Max reconnection attempts reached"))
            /\ UNCHANGED <<tasks, rtasks>>
       ELSE IF ~is_reconnecting(s.id)
       THEN /\ \E t \in Slots :
                 /\ FreeSlot(t)
                 /\ \A u \in Slots : FreeSlot(u) => t <= u
                 /\ tasks' = [tasks EXCEPT ![t] =
                        [pc |-> "new", obj |-> o, attempt |-> 0, cancel |-> FALSE]]
                 /\ rtasks' = Append(rtasks, [id |-> s.id, task |-> t])
            /\ UNCHANGED objs
       ELSE UNCHANGED <<objs, tasks, rtasks>>
    /\ ev' = Ret("handle_disconnect", objs[o].id, "None", o)
    /\ UNCHANGED <<regVars, calls, now, active, cfgVars, sideVars>>

\* a loop whose finally block leaves its record in place
LoopFinally_KeepsRecord(t, os) ==
    /\ objs' = os
    /\ tasks' = [tasks EXCEPT ![t] = Dead]
    /\ rtasks' = rtasks

\* lines 156-159: finally, the record of session.id is removed, whichever
\* task it names
LoopFinally(t, os) ==
    /\ objs' = os
    /\ tasks' = [tasks EXCEPT ![t] = Dead]
    /\ rtasks' = DelTask(rtasks, os[tasks[t].obj].id)

\* _start_stream bound to TelegramStreamer.start_stream, called with
\* (session.chat_id, session.source.url, session.profile): lines 208-232 run
\* without an await.  The chat id is an int and the profile a str, so behind
\* the occupancy scan profile.value raises AttributeError before any session
\* is built.
RegistryStartFromLoop(s, os) ==
    IF ~started \/ ~client THEN "StreamConnectionError"
    ELSE IF \E i \in DOMAIN reg :
              os[reg[i]].chat_id = s.chat_id /\ os[reg[i]].status \in Occupying
    THEN "StreamConnectionError"
    ELSE "AttributeError"

\* AfterAttempt with a retry predicate that lets every exception through
AfterAttempt_RetriesAll(t, n, os, outcome, timedOut) ==
    LET o == tasks[t].obj IN
    IF outcome = "ok"
    THEN LoopFinally(t, [os EXCEPT ![o] = mark_streaming(os[o], now)])
    ELSE IF n < ReconnectMaxAttempts /\ ~timedOut
    THEN /\ objs' = os
         /\ tasks' = [tasks EXCEPT ![t].pc = "sleep", ![t].attempt = n]
         /\ UNCHANGED rtasks
    ELSE /\ os[o].error_count < MaxErrors
         /\ LoopFinally(t, [os EXCEPT ![o] = mark_error(os[o], StrE)])

\* lines 129-159 and the AsyncRetrying policy of lines 96-108: what follows
\* the outcome of attempt n.  With reraise=True tenacity raises the last
\* exception of the start function when a stop condition holds, never
\* RetryError; timedOut is stop_after_delay(reconnect_timeout).
AfterAttempt(t, n, os, outcome, timedOut) ==
    LET o == tasks[t].obj IN
    IF outcome = "ok"
    THEN LoopFinally(t, [os EXCEPT ![o] = mark_streaming(os[o], now)])
    ELSE IF outcome = "StreamConnectionError"
            /\ n < ReconnectMaxAttempts /\ ~timedOut
    THEN /\ objs' = os
         /\ tasks' = [tasks EXCEPT ![t].pc = "sleep", ![t].attempt = n]
         /\ UNCHANGED rtasks
    ELSE /\ os[o].error_count < MaxErrors
         /\ LoopFinally(t, [os EXCEPT ![o] = mark_error(os[o], StrE)])

\* lines 109-127: one attempt, up to the await of the start function
Attempt(t, n, os) ==
    LET o == tasks[t].obj IN
    IF ~active
    THEN LoopFinally(t, os) \* ReconnectionError, logged by lines 143-148
    ELSE LET os2 == [os EXCEPT ![o].reconnect_attempts = n] IN
         IF wiring = "registry"
         THEN \E timedOut \in BOOLEAN :
                 AfterAttempt(t, n, os2, RegistryStartFromLoop(os2[o], os2), timedOut)
         ELSE /\ objs' = os2
              /\ tasks' = [tasks EXCEPT ![t].pc = "inStart", ![t].attempt = n]
              /\ UNCHANGED rtasks

\* the task runs for the first time: line 87, then the first attempt
TaskStart(t) ==
    /\ Idle
    /\ tasks[t].pc = "new" /\ ~tasks[t].cancel
    /\ LET o == tasks[t].obj IN
       Attempt(t, 1, SetObj(o, mark_reconnecting(objs[o])))
    /\ ev' = NoEv
    /\ UNCHANGED <<regVars, calls, now, active, cfgVars, sideVars>>

\* the start function returned or raised
TaskStartDone(t, outcome, timedOut) ==
    /\ Idle
    /\ tasks[t].pc = "inStart" /\ ~tasks[t].cancel
    /\ AfterAttempt(t, tasks[t].attempt, objs, outcome, timedOut)
    /\ ev' = NoEv
    /\ UNCHANGED <<regVars, calls, now, active, cfgVars, sideVars>>

\* the backoff wait is over: the next attempt
TaskWake(t) ==
    /\ Idle
    /\ tasks[t].pc = "sleep" /\ ~tasks[t].cancel
    /\ Attempt(t, tasks[t].attempt + 1, objs)
    /\ ev' = NoEv
    /\ UNCHANGED <<regVars, calls, now, active, cfgVars, sideVars>>

\* CancelledError is thrown into the task at its await; a task that never
\* ran ends without entering the coroutine, so without the finally block
TaskCancelled(t) ==
    /\ Idle
    /\ tasks[t].pc \in {"new", "inStart", "sleep"} /\ tasks[t].cancel
    /\ IF tasks[t].pc = "new"
       THEN /\ tasks' = [tasks EXCEPT ![t] = Dead]
            /\ UNCHANGED <<objs, rtasks>>
       ELSE LoopFinally(t, objs)
    /\ ev' = NoEv
    /\ UNCHANGED <<regVars, calls, now, active, cfgVars, sideVars>>

\* lines 170-179 behind the await: del self._reconnect_tasks[session_id]
\* raises KeyError when the loop's finally has removed the record
RECURSIVE MgrStopScan(_, _)
MgrStopScan(rem, rt) ==
    IF rem = <<>> THEN [rem |-> rem, rt |-> rt]
    ELSE IF ~HasTask(rt, Head(rem)) THEN MgrStopScan(Tail(rem), rt)
    ELSE IF tasks[TaskOf(rt, Head(rem))].pc = "done"
    THEN MgrStopScan(Tail(rem), DelTask(rt, Head(rem)))
    ELSE [rem |-> rem, rt |-> rt]

\* lines 196-199: cancel_reconnection for every key of the snapshot, up to
\* the first one that suspends on its task
MgrStopLoop(rem, rt, rest) ==
    LET r == MgrStopScan(rem, rt) IN
    /\ rtasks' = r.rt
    /\ IF r.rem = <<>>
       THEN /\ calls' = rest
            /\ ev' = Ret("manager_stop", None, "None", None)
            /\ UNCHANGED tasks
       ELSE LET i == Head(r.rem)
                t == TaskOf(r.rt, i) IN
            /\ tasks' = [tasks EXCEPT ![t].cancel = TRUE]
            /\ calls' = rest \cup
                 {[Call("cancel_reconnection", "await", None, None, "", "",
                        Tail(r.rem), "manager_stop")
                   EXCEPT !.id = i, !.task = t]}
            /\ ev' = NoEv

\* lines 170-173: task.cancel(), then await task; awaiting a finished task
\* does not suspend
CancelReconnection(i) ==
    /\ Idle
    /\ IF ~HasTask(rtasks, i)
       THEN /\ ev' = Ret("cancel_reconnection", i, "False", None)
            /\ UNCHANGED <<calls, tasks, rtasks>>
       ELSE LET t == TaskOf(rtasks, i) IN
            IF tasks[t].pc = "done"
            THEN /\ rtasks' = DelTask(rtasks, i)
                 /\ ev' = Ret("cancel_reconnection", i, "True", None)
                 /\ UNCHANGED <<calls, tasks>>
            ELSE /\ CanSuspend
                 /\ tasks' = [tasks EXCEPT ![t].cancel = TRUE]
                 /\ calls' = calls \cup
                      {[Call("cancel_reconnection", "await", None, None, "", "",
                             <<>>, "")
                        EXCEPT !.id = i, !.task = t]}
                 /\ ev' = NoEv
                 /\ UNCHANGED rtasks
    /\ UNCHANGED <<regVars, objs, now, active, cfgVars, sideVars>>

\* lines 174-178: the awaited task has ended
CancelDone(c) ==
    /\ Idle
    /\ c \in calls /\ c.op = "cancel_reconnection" /\ c.pc = "await"
    /\ tasks[c.task].pc = "done"
    /\ IF HasTask(rtasks, c.id)
       THEN IF c.after = "manager_stop"
            THEN MgrStopLoop(c.rem, DelTask(rtasks, c.id), calls \ {c})
            ELSE /\ rtasks' = DelTask(rtasks, c.id)
                 /\ calls' = calls \ {c}
                 /\ ev' = Ret("cancel_reconnection", c.id, "True", None)
                 /\ UNCHANGED tasks
       ELSE /\ calls' = calls \ {c}
            /\ ev' = Ret(IF c.after = "manager_stop" THEN "manager_stop"
                         ELSE "cancel_reconnection", c.id, "KeyError", None)
            /\ UNCHANGED <<tasks, rtasks>>
    /\ UNCHANGED <<regVars, objs, now, active, cfgVars, sideVars>>

\* ReconnectionManager.stop, lines 194-197
MgrStop ==
    /\ Idle /\ CanSuspend
    /\ active' = FALSE
    /\ MgrStopLoop([k \in DOMAIN rtasks |-> rtasks[k].id], rtasks, calls)
    /\ UNCHANGED <<regVars, objs, now, cfgVars, sideVars>>

\* ------------------------------------------------------- HealthMonitor
MonSlots == 1..MaxMonTasks
NoMonTask == [pc |-> "done", cancel |-> FALSE]
MonAwaited(t) == \E c \in calls : c.op = "monitor_stop" /\ c.task = t
MonFree(t) == mtasks[t].pc = "done" /\ ~MonAwaited(t) /\ monitor_task # t

\* HealthMonitor.start, lines 242-249: no await, one step
MonStart ==
    /\ Idle
    /\ IF monitor_active
       THEN UNCHANGED monVars
       ELSE \E t \in MonSlots :
              /\ MonFree(t) /\ \A u \in MonSlots : MonFree(u) => t <= u
              /\ monitor_active' = TRUE
              /\ mtasks' = [mtasks EXCEPT ![t] = [pc |-> "new", cancel |-> FALSE]]
              /\ monitor_task' = t
    /\ ev' = Ret("monitor_start", None, "None", None)
    /\ UNCHANGED <<regVars, objs, calls, now, mgrVars, cfgVars, auxVars, ffVars>>

\* HealthMonitor.stop, lines 251-257: _active = False, the task is
\* cancelled and awaited; awaiting a finished task does not suspend
MonStop ==
    /\ Idle
    /\ monitor_active' = FALSE
    /\ IF monitor_task = None
       THEN /\ ev' = Ret("monitor_stop", None, "None", None)
            /\ UNCHANGED <<monitor_task, mtasks, calls>>
       ELSE IF mtasks[monitor_task].pc = "done"
       THEN /\ monitor_task' = None
            /\ ev' = Ret("monitor_stop", None, "None", None)
            /\ UNCHANGED <<mtasks, calls>>
       ELSE /\ CanSuspend
            /\ mtasks' = [mtasks EXCEPT ![monitor_task].cancel = TRUE]
            /\ calls' = calls \cup
                 {[Call("monitor_stop", "await", None, None, "", "", <<>>, "")
                   EXCEPT !.task = monitor_task]}
            /\ ev' = NoEv
            /\ UNCHANGED monitor_task
    /\ UNCHANGED <<regVars, objs, now, mgrVars, cfgVars, auxVars, ffVars>>

\* lines 258-263: the awaited task has ended (a CancelledError out of the
\* await is swallowed): _monitor_task = None
MonStopDone(c) ==
    /\ Idle
    /\ c \in calls /\ c.op = "monitor_stop" /\ c.pc = "await"
    /\ mtasks[c.task].pc = "done"
    /\ monitor_task' = None
    /\ calls' = calls \ {c}
    /\ ev' = Ret("monitor_stop", None, "None", None)
    /\ UNCHANGED <<regVars, objs, now, mgrVars, cfgVars, auxVars, ffVars,
                   monitor_active, mtasks>>

\* _monitor_loop, lines 265-274: one step of the task in slot t, up to its
\* next await of asyncio.sleep.  A task cancelled before it ran ends without
\* entering the coroutine; CancelledError out of the sleep breaks the loop;
\* _check_all_sessions only logs and never suspends.
MonTaskStep(t) ==
    /\ Idle
    /\ mtasks[t].pc # "done"
    /\ mtasks' = [mtasks EXCEPT ![t] =
          IF mtasks[t].cancel \/ ~monitor_active
          THEN NoMonTask
          ELSE [pc |-> "sleep", cancel |-> FALSE]]
    /\ ev' = NoEv
    /\ UNCHANGED <<regVars, objs, calls, now, mgrVars, cfgVars, auxVars, ffVars,
                   monitor_active, monitor_task>>

\* register_session, lines 223-230: self._sessions[session.id] = session
MonRegister(o) ==
    /\ Idle
    /\ o \in DOMAIN objs
    /\ monitored' =
         IF \E k \in DOMAIN monitored : objs[monitored[k]].id = objs[o].id
         THEN [k \in DOMAIN monitored |->
                 IF objs[monitored[k]].id = objs[o].id THEN o ELSE monitored[k]]
         ELSE Append(monitored, o)
    /\ ev' = Ret("register_session", objs[o].id, "None", o)
    /\ UNCHANGED <<regVars, objs, calls, now, mgrVars, cfgVars, monVars,
                   ffVars, rdVars, fnVars, down>>

\* unregister_session, lines 232-240
MonUnregister(i) ==
    /\ Idle
    /\ monitored' = SelectSeq(monitored, LAMBDA o : objs[o].id # i)
    /\ ev' = Ret("unregister_session", i, "None", None)
    /\ UNCHANGED <<regVars, objs, calls, now, mgrVars, cfgVars, monVars,
                   ffVars, rdVars, fnVars, down>>

\* the stream of a session that is STREAMING or PAUSED breaks down: what a
\* check of the process, the transport or the data flow (the TODO of lines
\* 291-294) would find
StreamBreaks(o) ==
    /\ Idle
    /\ o \in DOMAIN objs /\ o \notin down
    /\ objs[o].status \in {"STREAMING", "PAUSED"}
    /\ down' = down \cup {o}
    /\ ev' = NoEv
    /\ UNCHANGED <<regVars, objs, calls, now, mgrVars, cfgVars, monVars,
                   ffVars, rdVars, fnVars, monitored>>

\* a tick of the monitor: the task in slot t wakes from its sleep and runs
\* _check_all_sessions, lines 276-301, which reads the status of every
\* registered session and logs
MonTick(t) ==
    /\ mtasks[t].pc = "sleep" /\ ~mtasks[t].cancel
    /\ MonTaskStep(t)

\* ------------------------------------------------------- FFmpegWrapper
\* An argument of the command is the sequence of the pieces of text it is
\* put together from; a literal is one piece.
Lit(x) == <<x>>
Digits == <<"0", "1", "2", "3", "4", "5", "6", "7", "8", "9">>
\* str(n)
RECURSIVE Str(_)
Str(n) ==
    IF n < 10 THEN <<Digits[n + 1]>>
    ELSE Str(n \div 10) \o <<Digits[(n % 10) + 1]>>
\* int(s)
RECURSIVE ToInt(_)
ToInt(s) ==
    IF s = <<>> THEN 0
    ELSE 10 * ToInt(SubSeq(s, 1, Len(s) - 1))
         + (CHOOSE d \in 0..9 : Digits[d + 1] = s[Len(s)])

NoWrapper == [stream_type |-> "none", profile |-> "none"]
NoCmd == [raised |-> "", args |-> <<>>]
StreamType == {"M3U", "M3U8", "HLS", "RTMP", "YOUTUBE", "DIRECT"}
TranscodeProfile == {"AUTO", "P480", "P720", "P1080"}

\* TranscodeSettings(width, height, video_bitrate, fps), models.py lines
\* 60-72, with the defaults of audio_bitrate
TranscodeSettings(w, h, vb, f) ==
    [width |-> w, height |-> h, video_bitrate |-> vb,
     audio_bitrate |-> <<"128k">>, fps |-> f]
NoSettings == TranscodeSettings(0, 0, <<>>, 0)
\* __post_init__, models.py lines 74-81: the dict it assigns to PROFILES is
\* built from TranscodeSettings(...) calls, each of which runs __post_init__
\* again, until the interpreter's recursion limit raises RecursionError
RECURSIVE post_init(_)
post_init(depth) ==
    IF depth >= RecursionLimit THEN "RecursionError"
    ELSE post_init(depth + 1)

\* get_profile that looks the name up in a table built without a call of
\* the constructor
get_profile_Plain(profile) ==
    LET profiles ==
          [n \in {"480p", "720p", "1080p"} |->
             CASE n = "480p" ->
                    TranscodeSettings(854, 480, <<"1", "5", "0", "0", "k">>, 30)
               [] n = "720p" ->
                    TranscodeSettings(1280, 720, <<"3", "0", "0", "0", "k">>, 30)
               [] n = "1080p" ->
                    TranscodeSettings(1920, 1080, <<"5", "0", "0", "0", "k">>, 30)]
    IN  [raised |-> "",
         val |-> IF profile \in DOMAIN profiles THEN profiles[profile]
                 ELSE NoSettings]

\* TranscodeSettings.get_profile, models.py lines 82-96: the three
\* cls(...) calls of the dict come first, profiles.get(profile) after them
get_profile(profile) ==
    LET made == post_init(1)
        profiles ==
          [n \in {"480p", "720p", "1080p"} |->
             CASE n = "480p" ->
                    TranscodeSettings(854, 480, <<"1", "5", "0", "0", "k">>, 30)
               [] n = "720p" ->
                    TranscodeSettings(1280, 720, <<"3", "0", "0", "0", "k">>, 30)
               [] n = "1080p" ->
                    TranscodeSettings(1920, 1080, <<"5", "0", "0", "0", "k">>, 30)]
    IN  IF made = "RecursionError"
        THEN [raised |-> "RecursionError", val |-> NoSettings]
        ELSE [raised |-> "",
              val |-> IF profile \in DOMAIN profiles THEN profiles[profile]
                      ELSE NoSettings]

\* _build_input_args, lines 78-108
build_input_args(w) ==
    (IF w.stream_type \in {"HLS", "M3U8", "M3U"}
     THEN <<Lit("-reconnect"), Lit("1"), Lit("-reconnect_streamed"), Lit("1"),
            Lit("-reconnect_delay_max"), Lit("5")>>
     ELSE <<>>)
    \o (IF w.stream_type = "RTMP"
        THEN <<Lit("-rtmp_live"), Lit("live")>>
        ELSE <<>>)
    \o <<Lit("-analyzeduration"), Lit("5000000"), Lit("-probesize"),
         Lit("5000000"), Lit("-fflags"), Lit("+genpts+discardcorrupt"),
         Lit("-i"), Lit("source.url")>>

\* _build_video_args, lines 110-140
build_video_args(w) ==
    LET got == get_profile(ProfileValue(w.profile))
        ts == got.val
    IN  IF got.raised # "" THEN [raised |-> got.raised, args |-> <<>>]
        ELSE IF ts # NoSettings
        THEN [raised |-> "",
              args |->
                <<Lit("-c:v"), Lit("libx264"), Lit("-preset"), Lit("ultrafast"),
                  Lit("-tune"), Lit("zerolatency"), Lit("-vf"),
                  <<"scale=">> \o Str(ts.width) \o <<":">> \o Str(ts.height),
                  Lit("-b:v"), ts.video_bitrate,
                  Lit("-maxrate"), ts.video_bitrate,
                  Lit("-bufsize"),
                  Str(ToInt(SubSeq(ts.video_bitrate, 1,
                                 Len(ts.video_bitrate) - 1)) * 2) \o <<"k">>,
                  Lit("-r"), Str(ts.fps),
                  Lit("-g"), Str(ts.fps * 2),
                  Lit("-pix_fmt"), Lit("yuv420p")>>]
        ELSE [raised |-> "", args |-> <<Lit("-c:v"), Lit("copy")>>]

\* _build_audio_args, lines 142-160
build_audio_args(w) ==
    LET got == get_profile(ProfileValue(w.profile))
        ts == got.val
    IN  IF got.raised # "" THEN [raised |-> got.raised, args |-> <<>>]
        ELSE IF ts # NoSettings
        THEN [raised |-> "",
              args |-> <<Lit("-c:a"), Lit("aac"), Lit("-b:a"),
                         ts.audio_bitrate, Lit("-ar"), Lit("48000"),
                         Lit("-ac"), Lit("2")>>]
        ELSE [raised |-> "", args |-> <<Lit("-c:a"), Lit("copy")>>]

\* _build_output_args, lines 162-175
build_output_args(output) ==
    <<Lit("-f"), Lit("mpegts"), Lit("-flush_packets"), Lit("1"), Lit(output)>>

\* build_command, lines 177-208, with the default output "pipe:1"
build_command(w) ==
    LET head == <<Lit("ffmpeg"), Lit("-y"), Lit("-hide_banner"),
                  Lit("-loglevel"), Lit("warning"), Lit("-threads"),
                  Str(FfmpegThreads)>>
        video == build_video_args(w)
        audio == build_audio_args(w)
    IN  IF video.raised # "" THEN [raised |-> video.raised, args |-> <<>>]
        ELSE IF audio.raised # "" THEN [raised |-> audio.raised, args |-> <<>>]
        ELSE [raised |-> "",
              args |-> head \o build_input_args(w) \o video.args
                       \o audio.args \o build_output_args("pipe:1")]

\* a caller calls build_command()
BuildCommand ==
    /\ Idle
    /\ wrapper # NoWrapper
    /\ cmd' = build_command(wrapper)
    /\ ev' = Ret("build_command", None,
                 IF cmd'.raised # "" THEN cmd'.raised ELSE "list", None)
    /\ UNCHANGED <<regVars, objs, calls, now, mgrVars, cfgVars, monVars,
                   ffVars, rdVars, hmVars, url, source, wrapper>>

\* procs[p] is the subprocess in slot p: "alive" until its exit has been
\* collected (returncode set), term and kill record the calls of
\* Process.terminate() and Process.kill() made on it.
Procs == 1..MaxProcs
NoProc == [state |-> "none", term |-> FALSE, kill |-> FALSE]
FfCalls == {c \in calls : c.op \in {"ffmpeg_start", "ffmpeg_stop"}}

\* is_running, lines 300-306
is_running ==
    running /\ process # None /\ procs[process].state = "alive"

\* FFmpegWrapper.start, lines 210-239: check_ffmpeg; build_command, whose
\* exception leaves start() as it is (line 225 is outside the try); then
\* create_subprocess_exec, which gives the subprocess (the least free slot)
\* or raises, and FFmpegProcessError goes to the caller.  Nothing is assigned
\* before the await of create_subprocess_exec, so the call is one step.
FfStart(found, ok) ==
    /\ Idle
    /\ wrapper # NoWrapper
    /\ IF ~found
       THEN /\ ev' = Ret("ffmpeg_start", None, "FFmpegNotFoundError", None)
            /\ UNCHANGED ffVars
       ELSE IF build_command(wrapper).raised # ""
       THEN /\ ev' = Ret("ffmpeg_start", None, build_command(wrapper).raised,
                         None)
            /\ UNCHANGED ffVars
       ELSE IF ok
       THEN \E p \in Procs :
              /\ procs[p].state = "none"
              /\ \A q \in Procs : procs[q].state = "none" => p <= q
              /\ procs' = [procs EXCEPT ![p].state = "alive"]
              /\ process' = p
              /\ running' = TRUE
              /\ ev' = Ret("ffmpeg_start", p, "Process", None)
       ELSE /\ ev' = Ret("ffmpeg_start", None, "FFmpegProcessError", None)
            /\ UNCHANGED ffVars
    /\ UNCHANGED <<regVars, objs, calls, now, mgrVars, cfgVars, auxVars, monVars>>

\* the subprocess ends, of itself or on a signal, and its exit is collected
ProcExits(p) ==
    /\ Idle
    /\ procs[p].state = "alive"
    /\ procs' = [procs EXCEPT ![p].state = "exited"]
    /\ ev' = NoEv
    /\ UNCHANGED <<regVars, objs, calls, now, mgrVars, cfgVars, auxVars, monVars,
                   running, process>>

\* FFmpegWrapper.stop, lines 265-275: _running = False; with a process,
\* terminate() and the await of wait_for(wait(), 5.0).  terminate() on a
\* process that has exited does nothing or raises ProcessLookupError (lookup),
\* which line 283 swallows.
FfStop(lookup) ==
    /\ Idle
    /\ running' = FALSE
    /\ IF process = None
       THEN /\ ev' = Ret("ffmpeg_stop", None, "None", None)
            /\ UNCHANGED <<process, procs, calls>>
       ELSE IF procs[process].state = "exited" /\ lookup
       THEN /\ procs' = [procs EXCEPT ![process].term = TRUE]
            /\ process' = None
            /\ ev' = Ret("ffmpeg_stop", process, "None", None)
            /\ UNCHANGED calls
       ELSE /\ CanSuspend
            /\ procs' = [procs EXCEPT ![process].term = TRUE]
            /\ calls' = calls \cup
                 {[Call("ffmpeg_stop", "wait", None, None, "", "", <<>>, "")
                   EXCEPT !.proc = process]}
            /\ ev' = NoEv
            /\ UNCHANGED process
    /\ UNCHANGED <<regVars, objs, now, mgrVars, cfgVars, auxVars, monVars>>

\* lines 274, 286: the process exited within the grace period
FfStopWaitDone(c) ==
    /\ Idle
    /\ c \in calls /\ c.op = "ffmpeg_stop" /\ c.pc = "wait"
    /\ procs[c.proc].state = "exited"
    /\ process' = None
    /\ calls' = calls \ {c}
    /\ ev' = Ret("ffmpeg_stop", c.proc, "None", None)
    /\ UNCHANGED <<regVars, objs, now, mgrVars, cfgVars, auxVars, monVars,
                   running, procs>>

\* FfStopTimeout without the second wait(): the handle is dropped as soon as
\* kill() was called
FfStopTimeout_NoReap(c) ==
    /\ Idle
    /\ c \in calls /\ c.op = "ffmpeg_stop" /\ c.pc = "wait"
    /\ procs[c.proc].state = "alive"
    /\ IF process = None
       THEN /\ ev' = Ret("ffmpeg_stop", c.proc, "AttributeError", None)
            /\ UNCHANGED <<process, procs>>
       ELSE /\ procs' = [procs EXCEPT ![process].kill = TRUE]
            /\ process' = None
            /\ ev' = Ret("ffmpeg_stop", c.proc, "None", None)
    /\ calls' = calls \ {c}
    /\ UNCHANGED <<regVars, objs, now, mgrVars, cfgVars, auxVars, monVars, running>>

\* lines 275-279: the grace period ran out with the process alive:
\* self._process.kill() and the await of self._process.wait(), both on the
\* process the attribute holds now
FfStopTimeout(c) ==
    /\ Idle
    /\ c \in calls /\ c.op = "ffmpeg_stop" /\ c.pc = "wait"
    /\ procs[c.proc].state = "alive"
    /\ IF process = None
       THEN /\ calls' = calls \ {c}
            /\ ev' = Ret("ffmpeg_stop", c.proc, "AttributeError", None)
            /\ UNCHANGED procs
       ELSE /\ procs' = [procs EXCEPT ![process].kill = TRUE]
            /\ calls' = (calls \ {c}) \cup
                 {[c EXCEPT !.pc = "killwait", !.proc = process]}
            /\ ev' = NoEv
    /\ UNCHANGED <<regVars, objs, now, mgrVars, cfgVars, auxVars, monVars,
                   running, process>>

\* lines 279, 286: the killed process was reaped
FfStopKillWaitDone(c) ==
    /\ Idle
    /\ c \in calls /\ c.op = "ffmpeg_stop" /\ c.pc = "killwait"
    /\ procs[c.proc].state = "exited"
    /\ process' = None
    /\ calls' = calls \ {c}
    /\ ev' = Ret("ffmpeg_stop", c.proc, "None", None)
    /\ UNCHANGED <<regVars, objs, now, mgrVars, cfgVars, auxVars, monVars,
                   running, procs>>

\* ------------------------------------------- FFmpegWrapper.read_stream
\* readers[g] is the g-th async generator read_stream() returned: suspended
\* in the read of line 252 ("read"), suspended at its yield ("yield") or
\* finished ("done", why tells how); proc is the process whose stdout it
\* reads.  yielded is the sequence of the chunks handed to consumers: chunk n
\* of the output of process proc, out of generator gen.
Reader(pc, p, why) == [pc |-> pc, proc |-> p, why |-> why]
Chunks(p) == Cardinality({i \in DOMAIN yielded : yielded[i].proc = p})
\* stdout of p has given an empty read: every later read is empty too
AtEof(p) == \E g \in DOMAIN readers : readers[g].proc = p /\ readers[g].why = "eof"

\* lines 249-252 on the first __anext__ of a new generator: the guard of
\* line 249, the loop test, the read.  One consumer reads at a time.
RdCall ==
    /\ Idle
    /\ Len(readers) < MaxReaders
    /\ \A g \in DOMAIN readers : readers[g].pc = "done"
    /\ IF process = None
       THEN /\ readers' = Append(readers, Reader("done", None, "raised"))
            /\ ev' = Ret("read_stream", Len(readers) + 1, "FFmpegError", None)
       ELSE IF ~running
       THEN /\ readers' = Append(readers, Reader("done", process, "stopped"))
            /\ ev' = Ret("read_stream", Len(readers) + 1,
                         "StopAsyncIteration", None)
       ELSE /\ readers' = Append(readers, Reader("read", process, ""))
            /\ ev' = NoEv
    /\ UNCHANGED <<regVars, objs, calls, now, mgrVars, cfgVars, monVars,
                   ffVars, yielded, hmVars, fnVars>>

\* the consumer asks for the next chunk: back from the yield of line 255 to
\* the loop test of line 251 and the read of line 252, on the process the
\* attribute holds now (None: the AttributeError is caught by line 258)
RdNext(g) ==
    /\ Idle
    /\ g \in DOMAIN readers /\ readers[g].pc = "yield"
    /\ IF ~running
       THEN /\ readers' = [readers EXCEPT ![g].pc = "done", ![g].why = "stopped"]
            /\ ev' = Ret("read_stream", g, "StopAsyncIteration", None)
       ELSE IF process = None
       THEN /\ readers' = [readers EXCEPT ![g].pc = "done", ![g].why = "error"]
            /\ ev' = Ret("read_stream", g, "StopAsyncIteration", None)
       ELSE /\ readers' = [readers EXCEPT ![g].pc = "read", ![g].proc = process]
            /\ ev' = NoEv
    /\ UNCHANGED <<regVars, objs, calls, now, mgrVars, cfgVars, monVars,
                   ffVars, yielded, hmVars, fnVars>>

\* RdReadDone with a CancelledError that is not caught
RdReadDone_RaisesCancel(g, outcome) ==
    /\ Idle
    /\ g \in DOMAIN readers /\ readers[g].pc = "read"
    /\ LET p == readers[g].proc IN
       CASE outcome = "chunk" ->
              /\ procs[p].state # "none" /\ ~AtEof(p) /\ Chunks(p) < MaxChunks
              /\ yielded' = Append(yielded,
                                   [gen |-> g, proc |-> p, n |-> Chunks(p) + 1])
              /\ readers' = [readers EXCEPT ![g].pc = "yield"]
              /\ ev' = Ret("read_stream", g, "chunk", None)
         [] outcome = "empty" ->
              /\ procs[p].state = "exited"
              /\ readers' = [readers EXCEPT ![g].pc = "done", ![g].why = "eof"]
              /\ ev' = Ret("read_stream", g, "StopAsyncIteration", None)
              /\ UNCHANGED yielded
         [] outcome = "cancel" ->
              /\ readers' = [readers EXCEPT ![g].pc = "done", ![g].why = "cancel"]
              /\ ev' = Ret("read_stream", g, "CancelledError", None)
              /\ UNCHANGED yielded
         [] outcome = "error" ->
              /\ readers' = [readers EXCEPT ![g].pc = "done", ![g].why = "error"]
              /\ ev' = Ret("read_stream", g, "StopAsyncIteration", None)
              /\ UNCHANGED yielded
    /\ UNCHANGED <<regVars, objs, calls, now, mgrVars, cfgVars, monVars,
                   ffVars, hmVars, fnVars>>

\* lines 252-260: the read returns the next chunk of the output, which is
\* yielded (line 255); or it returns b"" at the end of the output (break,
\* line 254); or CancelledError or another exception comes out of it (break,
\* lines 256-260).  A generator that breaks ends with StopAsyncIteration.
RdReadDone(g, outcome) ==
    /\ Idle
    /\ g \in DOMAIN readers /\ readers[g].pc = "read"
    /\ LET p == readers[g].proc IN
       CASE outcome = "chunk" ->
              /\ procs[p].state # "none" /\ ~AtEof(p) /\ Chunks(p) < MaxChunks
              /\ yielded' = Append(yielded,
                                   [gen |-> g, proc |-> p, n |-> Chunks(p) + 1])
              /\ readers' = [readers EXCEPT ![g].pc = "yield"]
              /\ ev' = Ret("read_stream", g, "chunk", None)
         [] outcome = "empty" ->
              /\ procs[p].state = "exited"
              /\ readers' = [readers EXCEPT ![g].pc = "done", ![g].why = "eof"]
              /\ ev' = Ret("read_stream", g, "StopAsyncIteration", None)
              /\ UNCHANGED yielded
         [] outcome = "cancel" ->
              /\ readers' = [readers EXCEPT ![g].pc = "done", ![g].why = "cancel"]
              /\ ev' = Ret("read_stream", g, "StopAsyncIteration", None)
              /\ UNCHANGED yielded
         [] outcome = "error" ->
              /\ readers' = [readers EXCEPT ![g].pc = "done", ![g].why = "error"]
              /\ ev' = Ret("read_stream", g, "StopAsyncIteration", None)
              /\ UNCHANGED yielded
    /\ UNCHANGED <<regVars, objs, calls, now, mgrVars, cfgVars, monVars,
                   ffVars, hmVars, fnVars>>

\* ------------------------------------- StreamSession.mark_*, called directly
\* StreamStatus, lines 9-17
StreamStatus == {"PENDING", "CONNECTING", "STREAMING", "RECONNECTING",
                 "PAUSED", "STOPPED", "ERROR"}
\* the messages a caller passes to mark_error
Messages == {"error A", "error B"}
\* a StreamSession in any state of its status and counters
AnySession ==
    {[NewSession(1, 1, "auto") EXCEPT
        !.status = st, !.reconnect_attempts = r, !.error_count = n,
        !.last_error = e] :
       st \in StreamStatus, r \in 0..MaxErrors, n \in 0..MaxErrors,
       e \in Messages \cup {""}}

MarkReconnecting(o) ==
    /\ Idle
    /\ o \in DOMAIN objs /\ objs[o].reconnect_attempts <= MaxErrors
    /\ objs' = [objs EXCEPT ![o] = mark_reconnecting(objs[o])]
    /\ ev' = Ret("mark_reconnecting", None, "None", o)
    /\ UNCHANGED <<regVars, calls, now, mgrVars, cfgVars, sideVars>>

MarkStreaming(o) ==
    /\ Idle
    /\ o \in DOMAIN objs
    /\ objs' = [objs EXCEPT ![o] = mark_streaming(objs[o], now)]
    /\ ev' = Ret("mark_streaming", None, "None", o)
    /\ UNCHANGED <<regVars, calls, now, mgrVars, cfgVars, sideVars>>

MarkError(o, e) ==
    /\ Idle
    /\ o \in DOMAIN objs /\ objs[o].error_count <= MaxErrors
    /\ objs' = [objs EXCEPT ![o] = mark_error(objs[o], e)]
    /\ ev' = Ret("mark_error", e, "None", o)
    /\ UNCHANGED <<regVars, calls, now, mgrVars, cfgVars, sideVars>>

\* ------------------------------------------- StreamSource.detect_type
\* A str is the sequence of its characters.
Upper == <<"A", "B", "C", "D", "E", "F", "G", "H", "I", "J", "K", "L", "M", "N", "O", "P", "Q", "R", "S", "T", "U", "V", "W", "X", "Y", "Z">>
Lowers == <<"a", "b", "c", "d", "e", "f", "g", "h", "i", "j", "k", "l", "m", "n", "o", "p", "q", "r", "s", "t", "u", "v", "w", "x", "y", "z">>
\* str.lower(), one character
LowerChar(ch) ==
    IF \E i \in DOMAIN Upper : Upper[i] = ch
    THEN Lowers[CHOOSE i \in DOMAIN Upper : Upper[i] = ch]
    ELSE ch
\* str.lower()
lower(s) == [i \in DOMAIN s |-> LowerChar(s[i])]
\* x in s
Contains(s, x) ==
    \E i \in 1..(Len(s) - Len(x) + 1) : SubSeq(s, i, i + Len(x) - 1) = x
\* s.endswith(x), s.startswith(x)
endswith(s, x) ==
    Len(x) <= Len(s) /\ SubSeq(s, Len(s) - Len(x) + 1, Len(s)) = x
startswith(s, x) == Len(x) <= Len(s) /\ SubSeq(s, 1, Len(x)) = x

\* the literals of lines 47-59
YoutubeCom == <<"y", "o", "u", "t", "u", "b", "e", ".", "c", "o", "m">>
YoutuBe == <<"y", "o", "u", "t", "u", ".", "b", "e">>
DotM3u == <<".", "m", "3", "u">>
DotM3u8 == <<".", "m", "3", "u", "8">>
SlashHls == <<"/", "h", "l", "s", "/">>
RtmpScheme == <<"r", "t", "m", "p", ":", "/", "/">>
RtmpsScheme == <<"r", "t", "m", "p", "s", ":", "/", "/">>

NoSource == [url |-> <<>>, stream_type |-> "none"]
StreamSource(u, t) == [url |-> u, stream_type |-> t]

\* StreamSource.detect_type, lines 37-59
detect_type(u) ==
    LET url_lower == lower(u) IN
    IF Contains(url_lower, YoutubeCom) \/ Contains(url_lower, YoutuBe)
    THEN StreamSource(u, "YOUTUBE")
    ELSE IF endswith(url_lower, DotM3u)
    THEN StreamSource(u, "M3U")
    ELSE IF endswith(url_lower, DotM3u8) \/ Contains(url_lower, SlashHls)
    THEN StreamSource(u, "HLS")
    ELSE IF startswith(url_lower, RtmpScheme)
            \/ startswith(url_lower, RtmpsScheme)
    THEN StreamSource(u, "RTMP")
    ELSE StreamSource(u, "HLS")

\* the urls a caller passes: scheme, host, path and ending, each possibly
\* missing, in either case of letters
Schemes == {<<>>, <<"h", "t", "t", "p", "s", ":", "/", "/">>, <<"r", "t", "m", "p", ":", "/", "/">>, <<"r", "t", "m", "p", "s", ":", "/", "/">>, <<"R", "T", "M", "P", ":", "/", "/">>}
Hosts == {<<"e", "x", ".", "c", "o", "m">>, <<"y", "o", "u", "t", "u", "b", "e", ".", "c", "o", "m">>, <<"y", "o", "u", "t", "u", ".", "b", "e">>, <<"Y", "o", "u", "T", "u", "b", "e", ".", "c", "o", "m">>}
Paths == {<<>>, <<"/", "a">>, <<"/", "h", "l", "s", "/", "a">>, <<"/", "y", "o", "u", "t", "u", ".", "b", "e", "/", "a">>}
Endings == {<<>>, <<".", "m", "3", "u">>, <<".", "m", "3", "u", "8">>, <<".", "M", "3", "U">>, <<"?", "t">>}
Urls == {a \o b \o c \o d :
           a \in Schemes, b \in Hosts, c \in Paths, d \in Endings}

\* a caller picks a url
PickUrl(u) ==
    /\ Idle
    /\ source # NoSource
    /\ url' = u
    /\ source' = NoSource
    /\ ev' = NoEv
    /\ UNCHANGED <<regVars, objs, calls, now, mgrVars, cfgVars, monVars,
                   ffVars, rdVars, hmVars, wrapper, cmd>>

\* StreamSource.detect_type(url) is called
DetectType ==
    /\ Idle
    /\ source = NoSource
    /\ source' = detect_type(url)
    /\ ev' = Ret("detect_type", None, "StreamSource", None)
    /\ UNCHANGED <<regVars, objs, calls, now, mgrVars, cfgVars, monVars,
                   ffVars, rdVars, hmVars, url, wrapper, cmd>>

\* ------------------------------------ TelegramStreamer getters, lines 380-408
\* list(self._sessions.values()): the sessions in the order of their keys
get_all_sessions == [k \in DOMAIN keys |-> reg[keys[k]]]

\* the comprehension of lines 405-408 with PAUSED left out of the tuple
get_active_sessions_SkipsPaused ==
    SelectSeq(get_all_sessions,
              LAMBDA o : objs[o].status \in {"STREAMING", "RECONNECTING"})

\* lines 405-408
get_active_sessions ==
    SelectSeq(get_all_sessions,
              LAMBDA o : objs[o].status \in {"STREAMING", "PAUSED", "RECONNECTING"})

GetSession(i) ==
    /\ Idle
    /\ ev' = Ret("get_session", i, "", get_session(i))
    /\ UNCHANGED <<regVars, objs, calls, now, mgrVars, cfgVars, sideVars>>

GetAllSessions ==
    /\ Idle
    /\ ev' = [Ret("get_all_sessions", None, "", None)
                EXCEPT !.list = get_all_sessions]
    /\ UNCHANGED <<regVars, objs, calls, now, mgrVars, cfgVars, sideVars>>

GetActiveSessions ==
    /\ Idle
    /\ ev' = [Ret("get_active_sessions", None, "", None)
                EXCEPT !.list = get_active_sessions]
    /\ UNCHANGED <<regVars, objs, calls, now, mgrVars, cfgVars, sideVars>>

\* ------------------------------------------------------------ the system
Tick ==
    /\ Idle
    /\ now < MaxClock
    /\ now' = now + 1
    /\ ev' = NoEv
    /\ UNCHANGED <<regVars, objs, calls, mgrVars, cfgVars, sideVars>>

Observe ==
    /\ ev # NoEv
    /\ ev' = NoEv
    /\ UNCHANGED <<regVars, objs, calls, now, mgrVars, cfgVars, sideVars>>

\* a constructed TelegramStreamer and ReconnectionManager (the __init__ of
\* each); the manager's start function is the streamer's start_stream or a
\* function of the caller's
Constructed ==
    /\ objs = <<>> /\ keys = <<>> /\ reg = <<>>
    /\ calls = {}
    /\ now = 0
    /\ active = TRUE
    /\ wiring \in {"registry", "stub"}
    /\ enabled \in BOOLEAN
    /\ tasks = [t \in Slots |-> Dead]
    /\ rtasks = <<>>
    /\ ev = NoEv
    /\ monitor_active = FALSE /\ monitor_task = None
    /\ mtasks = [t \in MonSlots |-> NoMonTask]
    /\ running = FALSE /\ process = None
    /\ procs = [p \in Procs |-> NoProc]
    /\ readers = <<>> /\ yielded = <<>>
    /\ monitored = <<>> /\ down = {}
    /\ url = <<>> /\ source = NoSource
    /\ wrapper = NoWrapper /\ cmd = NoCmd

\* ... before start() and after start() has returned
InitStopped == Constructed /\ started = FALSE /\ client = FALSE /\ tgcalls = FALSE
InitStarted == Constructed /\ started = TRUE /\ client = TRUE /\ tgcalls = TRUE

Outcomes == {"ok", "StreamConnectionError", "Exception"}

LifecycleOps ==
    \/ RegStart
    \/ \E c \in calls, r \in {"ok", "authkey", "fail"} : RegStartClientDone(c, r)
    \/ \E c \in calls, r \in {"ok", "authkey", "fail"} : RegStartTgDone(c, r)
    \/ RegStop
    \/ \E c \in calls : ShutdownLeaveDone(c)
    \/ \E c \in calls : ShutdownTgDone(c)
    \/ \E c \in calls : ShutdownClientDone(c)

StartOps ==
    \/ \E ch \in ChatValues, n \in BOOLEAN : StartStream(ch, n)
    \/ \E c \in calls, ok \in BOOLEAN : StartResolved(c, ok)
    \/ \E c \in calls, src \in Sources : StartConnecting(c, src)
    \/ \E c \in calls, ok \in BOOLEAN : StartYoutubeDone(c, ok)
    \/ \E c \in calls, r \in {"ok", "perm", "fail"} : StartPlayDone(c, r)

SessionOps ==
    \/ \E i \in Ids : StopStream(i)
    \/ \E c \in calls : StopLeaveDone(c)
    \/ \E i \in Ids : PauseStream(i)
    \/ \E c \in calls, ok \in BOOLEAN : PauseDone(c, ok)
    \/ \E i \in Ids : ResumeStream(i)
    \/ \E c \in calls, ok \in BOOLEAN : ResumeDone(c, ok)

ReconnectOps ==
    \/ \E o \in 1..MaxSessions, e \in {"", "Test error"} : HandleDisconnect(o, e)
    \/ \E t \in Slots : TaskStart(t)
    \/ \E t \in Slots, r \in Outcomes, d \in BOOLEAN : TaskStartDone(t, r, d)
    \/ \E t \in Slots : TaskWake(t)
    \/ \E t \in Slots : TaskCancelled(t)
    \/ \E i \in Ids : CancelReconnection(i)
    \/ \E c \in calls : CancelDone(c)
    \/ MgrStop

\* One session's life: the streaming API and the reconnection manager
\* around a started streamer.
Init ==
    /\ InitStarted
    /\ cap = [sessions |-> OneSession, calls |-> MaxCalls, tasks |-> OneTask]
Next == StartOps \/ SessionOps \/ ReconnectOps \/ Observe
Spec == Init /\ [][Next]_vars

\* Several sessions side by side under the streaming API.
InitPair ==
    /\ InitStarted /\ wiring = "registry" /\ enabled
    /\ cap = [sessions |-> MaxSessions, calls |-> MaxCalls, tasks |-> OneTask]
NextPair == StartOps \/ SessionOps \/ Observe
SpecPair == InitPair /\ [][NextPair]_vars

\* Two sessions, each call made after the one before has returned.
InitPairSerial ==
    /\ InitStarted /\ wiring = "registry" /\ enabled
    /\ cap = [sessions |-> MaxSessions, calls |-> OneCall, tasks |-> OneTask]
SpecPairSerial == InitPairSerial /\ [][NextPair]_vars

\* One session under a clock that advances.
NextTimed == StartOps \/ SessionOps \/ Tick \/ Observe
InitTimed ==
    /\ InitStarted /\ wiring = "registry" /\ enabled
    /\ cap = [sessions |-> OneSession, calls |-> MaxCalls, tasks |-> OneTask]
SpecTimed == InitTimed /\ [][NextTimed]_vars

\* ... with each call made after the one before has returned.
InitSerial ==
    /\ InitStarted /\ wiring = "registry" /\ enabled
    /\ cap = [sessions |-> OneSession, calls |-> OneCall, tasks |-> OneTask]
SpecSerial == InitSerial /\ [][NextTimed]_vars

\* One session over the life of the streamer: start(), the streaming API,
\* stop().
InitLife ==
    /\ InitStopped /\ wiring = "registry" /\ enabled
    /\ cap = [sessions |-> OneSession, calls |-> MaxCalls, tasks |-> OneTask]
NextLife == LifecycleOps \/ StartOps \/ SessionOps \/ Observe
SpecLife == InitLife /\ [][NextLife]_vars

\* One session and the reconnection manager with several retry-loop tasks,
\* each call made after the one before has returned.
InitLoops ==
    /\ InitStarted
    /\ cap = [sessions |-> OneSession, calls |-> OneCall, tasks |-> MaxTasks]
NextLoops == StartOps \/ ReconnectOps \/ Observe
SpecLoops == InitLoops /\ [][NextLoops]_vars

\* one step of the retry-loop task in slot t
TaskStep(t) ==
    \/ TaskStart(t)
    \/ \E r \in Outcomes, d \in BOOLEAN : TaskStartDone(t, r, d)
    \/ TaskWake(t)
    \/ TaskCancelled(t)
\* a result is handed over, a coroutine that was called runs to its await
Scheduled == Observe \/ \E c \in calls, src \in Sources : StartConnecting(c, src)
\* The event loop runs every task that is ready again and again, and every
\* await of the start function and of the backoff sleep returns.
\* One session, with the reconnection manager at work on it, read through
\* the getters; each call is made after the one before has returned.
QueryOps ==
    \/ \E i \in Ids : GetSession(i)
    \/ GetAllSessions
    \/ GetActiveSessions
InitQuery ==
    /\ InitStarted /\ wiring = "stub" /\ enabled
    /\ cap = [sessions |-> OneSession, calls |-> OneCall, tasks |-> OneTask]
NextQuery == StartOps \/ SessionOps \/ ReconnectOps \/ QueryOps \/ Observe
SpecQuery == InitQuery /\ [][NextQuery]_vars

\* The health monitor, started and stopped by callers whose calls overlap.
MonitorOps ==
    \/ MonStart
    \/ MonStop
    \/ \E c \in calls : MonStopDone(c)
    \/ \E t \in MonSlots : MonTaskStep(t)
InitMonitor ==
    /\ InitStopped /\ wiring = "stub" /\ enabled
    /\ cap = [sessions |-> OneSession, calls |-> MaxCalls, tasks |-> OneTask]
NextMonitor == MonitorOps \/ Observe
SpecMonitor == InitMonitor /\ [][NextMonitor]_vars

\* One FFmpegWrapper and its subprocesses.  The wrapper has one owner, who
\* awaits each start() and stop() before the next call; the subprocess ends
\* whenever it does.
FfmpegOps ==
    \/ FfCalls = {} /\ \E found \in BOOLEAN, ok \in BOOLEAN : FfStart(found, ok)
    \/ FfCalls = {} /\ \E lookup \in BOOLEAN : FfStop(lookup)
    \/ \E p \in Procs : ProcExits(p)
    \/ \E c \in calls : FfStopWaitDone(c)
    \/ \E c \in calls : FfStopTimeout(c)
    \/ \E c \in calls : FfStopKillWaitDone(c)
    \/ RdCall
    \/ \E g \in 1..MaxReaders : RdNext(g)
    \/ \E g \in 1..MaxReaders,
          outcome \in {"chunk", "empty", "cancel", "error"} :
            RdReadDone(g, outcome)
    \/ BuildCommand
\* The wrapper of any source kind and profile, in the states its methods are
\* written for: never started, or holding the subprocess of a start()
InitFfmpeg ==
    /\ started = FALSE /\ client = FALSE /\ tgcalls = FALSE
    /\ objs = <<>> /\ keys = <<>> /\ reg = <<>>
    /\ calls = {} /\ now = 0 /\ active = TRUE
    /\ wiring = "stub" /\ enabled = TRUE
    /\ cap = [sessions |-> OneSession, calls |-> OneCall, tasks |-> OneTask]
    /\ tasks = [t \in Slots |-> Dead] /\ rtasks = <<>>
    /\ ev = NoEv
    /\ monitor_active = FALSE /\ monitor_task = None
    /\ mtasks = [t \in MonSlots |-> NoMonTask]
    /\ \/ /\ running = FALSE /\ process = None
          /\ procs = [p \in Procs |-> NoProc]
       \/ /\ running = TRUE /\ process = 1
          /\ procs = [p \in Procs |->
                        IF p = 1 THEN [NoProc EXCEPT !.state = "alive"]
                        ELSE NoProc]
    /\ readers = <<>> /\ yielded = <<>>
    /\ monitored = <<>> /\ down = {}
    /\ url = <<>> /\ source = NoSource
    /\ \E k \in StreamType, pr \in TranscodeProfile :
         wrapper = [stream_type |-> k, profile |-> pr]
    /\ cmd = NoCmd
NextFfmpeg == FfmpegOps \/ Observe
SpecFfmpeg == InitFfmpeg /\ [][NextFfmpeg]_vars

\* One session of a started streamer, registered with a health monitor.
HealthOps ==
    \/ MonStart
    \/ MonStop
    \/ \E c \in calls : MonStopDone(c)
    \/ \E t \in MonSlots : MonTaskStep(t)
    \/ \E o \in 1..MaxSessions : MonRegister(o)
    \/ \E i \in Ids : MonUnregister(i)
    \/ \E o \in 1..MaxSessions : StreamBreaks(o)
InitHealth ==
    /\ InitStarted /\ wiring = "stub" /\ enabled
    /\ cap = [sessions |-> OneSession, calls |-> OneCall, tasks |-> OneTask]
NextHealth == StartOps \/ SessionOps \/ HealthOps \/ Observe
SpecHealth == InitHealth /\ [][NextHealth]_vars

\* One StreamSession, in any state, whose mark_* methods are called.
MarkOps ==
    \/ \E o \in DOMAIN objs : MarkReconnecting(o)
    \/ \E o \in DOMAIN objs : MarkStreaming(o)
    \/ \E o \in DOMAIN objs, e \in Messages : MarkError(o, e)
InitMarks ==
    /\ started = FALSE /\ client = FALSE /\ tgcalls = FALSE
    /\ keys = <<>> /\ reg = <<>>
    /\ \E s \in AnySession : objs = <<s>>
    /\ calls = {} /\ now = 0 /\ active = TRUE
    /\ wiring = "stub" /\ enabled = TRUE
    /\ cap = [sessions |-> OneSession, calls |-> OneCall, tasks |-> OneTask]
    /\ tasks = [t \in Slots |-> Dead] /\ rtasks = <<>>
    /\ ev = NoEv
    /\ monitor_active = FALSE /\ monitor_task = None
    /\ mtasks = [t \in MonSlots |-> NoMonTask]
    /\ running = FALSE /\ process = None
    /\ procs = [p \in Procs |-> NoProc]
    /\ readers = <<>> /\ yielded = <<>>
    /\ monitored = <<>> /\ down = {}
    /\ url = <<>> /\ source = NoSource
    /\ wrapper = NoWrapper /\ cmd = NoCmd
NextMarks == MarkOps \/ Observe
SpecMarks == InitMarks /\ [][NextMarks]_vars

\* StreamSource.detect_type on the urls of callers
DetectOps == DetectType \/ \E u \in Urls : PickUrl(u)
InitDetect ==
    /\ InitStopped /\ wiring = "stub" /\ enabled
    /\ cap = [sessions |-> OneSession, calls |-> OneCall, tasks |-> OneTask]
NextDetect == DetectOps \/ Observe
SpecDetect == InitDetect /\ [][NextDetect]_vars

LoopsFairness ==
    /\ WF_vars(Scheduled)
    /\ \A t \in Slots : SF_vars(TaskStep(t))
SpecLoopsFair == SpecLoops /\ LoopsFairness

\* ================================================================ claims
Registered == {reg[i] : i \in DOMAIN reg}
OccupyingStatus == {"CONNECTING", "STREAMING", "RECONNECTING"}
OccupiedBy(ch) ==
    {o \in Registered : objs[o].chat_id = ch /\ objs[o].status \in OccupyingStatus}

\* C1: in every reachable state, for every chat at most one session of the
\* registry with that chat_id is CONNECTING, STREAMING or RECONNECTING.
C1_OneOccupyingPerTarget ==
    \A ch \in Chats : Cardinality(OccupiedBy(ch)) <= 1

\* C2: a start_stream whose occupancy scan runs while a session of the chat
\* is CONNECTING, STREAMING or RECONNECTING raises the "Already streaming"
\* StreamConnectionError, creates no session and changes no field of any
\* session, no registry entry and no manager state.
C2_StartOnOccupiedFails ==
    /\ [](\A ch \in Chats :
            (OccupiedBy(ch) # {} /\ started /\ client /\ Idle)
            => ENABLED ( /\ StartStream(ch, FALSE)
                         /\ ev' = Ret("start_stream", ch,
                                      "StreamConnectionError:already", None) ))
    /\ [][\A ch \in Chats :
          ( /\ OccupiedBy(ch) # {}
            /\ started /\ client
            /\ \/ StartStream(ch, FALSE)
               \/ \E c \in calls : c.chat = ch /\ StartResolved(c, TRUE) )
          => ( /\ ev' = Ret("start_stream", ch, "StreamConnectionError:already", None)
               /\ UNCHANGED <<regVars, objs, mgrVars>> )]_vars

\* a second start_stream has just been refused for a chat whose session is
\* RECONNECTING
C2_Witness ==
    /\ ev.op = "start_stream" /\ ev.val = "StreamConnectionError:already"
    /\ \E o \in OccupiedBy(ev.arg) : objs[o].status = "RECONNECTING"

NonTerminal == {"PENDING", "CONNECTING", "STREAMING", "PAUSED", "RECONNECTING"}
StatusKept(o) == objs'[o].status = objs[o].status

\* C3: once a session is STOPPED or ERROR, no step changes its status.
C3_TerminalIsFinal ==
    [][\A o \in DOMAIN objs : objs[o].status \in Terminal => StatusKept(o)]_vars

\* the state machine of the session status
Edges ==
    {<<"PENDING", "CONNECTING">>, <<"CONNECTING", "STREAMING">>,
     <<"CONNECTING", "ERROR">>, <<"STREAMING", "PAUSED">>,
     <<"PAUSED", "STREAMING">>, <<"STREAMING", "RECONNECTING">>,
     <<"PAUSED", "RECONNECTING">>, <<"RECONNECTING", "STREAMING">>,
     <<"RECONNECTING", "ERROR">>}
    \cup {<<s, "STOPPED">> : s \in NonTerminal}

\* C4: every step that changes the status of a session in a non-terminal
\* status follows an edge of the state machine.
C4_OnlyEdges ==
    [][\A o \in DOMAIN objs :
          (objs[o].status \in NonTerminal /\ ~StatusKept(o))
          => <<objs[o].status, objs'[o].status>> \in Edges]_vars

\* a retry loop that has not ended works on session object o
LoopRunning(o) == \E t \in Slots : tasks[t].pc # "done" /\ tasks[t].obj = o
LoopStep ==
    \/ \E t \in Slots : TaskStart(t) \/ TaskWake(t) \/ TaskCancelled(t)
    \/ \E t \in Slots, r \in Outcomes, d \in BOOLEAN : TaskStartDone(t, r, d)

\* C5: a stop_stream called while a retry loop is at work on its session
\* returns True with no retry loop left for the session and the session
\* STOPPED, and no later step of a retry loop changes the status of a STOPPED
\* session.
C5_StopCancelsReconnection ==
    [][ /\ \A c \in calls :
            (c.op = "stop_stream" /\ c.task # None /\ StopLeaveDone(c))
            => ( /\ ev'.val = "True"
                 /\ objs'[c.obj].status = "STOPPED"
                 /\ \A t \in Slots : tasks'[t].pc # "done" => tasks'[t].obj # c.obj )
        /\ \A o \in DOMAIN objs :
            (objs[o].status = "STOPPED" /\ LoopStep) => StatusKept(o) ]_vars

\* a stop_stream call is suspended on leave_call for session object o
StopInFlight(o) == \E c \in calls : c.op = "stop_stream" /\ c.obj = o

\* C6: a start_stream that went straight to tgcalls.play and finds, when
\* play answers, that a stop_stream issued meanwhile has completed, leaves
\* the session STOPPED or ERROR.
C6_StopDuringStartEndsTerminal ==
    [][\A c \in calls :
          ( /\ c.op = "start_stream" /\ c.pc = "play" /\ c.source = "hls"
            /\ objs[c.obj].status = "STOPPED" /\ ~StopInFlight(c.obj)
            /\ \E r \in {"ok", "perm", "fail"} : StartPlayDone(c, r) )
          => objs'[c.obj].status \in Terminal]_vars

\* C7: stop_stream on an id the registry does not hold returns False, calls
\* no transport function and changes no session, no registry entry, no call
\* in flight and no retry-loop record.
C7_StopUnknownIsNoOp ==
    [][\A i \in Ids :
          (i \notin DOMAIN reg /\ StopStream(i))
          => ( /\ ev' = Ev("stop_stream", i, "False", None, "", None)
               /\ UNCHANGED <<regVars, objs, calls, mgrVars, now>> )]_vars

\* stop_stream has returned False for an unknown id while a session is
\* registered under another id and a retry loop is recorded
C7_Witness ==
    /\ ev.op = "stop_stream" /\ ev.val = "False"
    /\ ev.arg \notin DOMAIN reg
    /\ reg # <<>> /\ rtasks # <<>>

\* C8: a stop_stream that completes on a session already STOPPED leaves its
\* status and stopped_at, hence its duration, as the first stop left them.
C8_StopIdempotent ==
    [][\A c \in calls :
          (c.op = "stop_stream" /\ objs[c.obj].status = "STOPPED"
           /\ StopLeaveDone(c))
          => ( /\ ev' = Ret("stop_stream", objs[c.obj].id, "True", c.obj)
               /\ StatusKept(c.obj)
               /\ objs'[c.obj].stopped_at = objs[c.obj].stopped_at
               /\ duration_seconds(objs'[c.obj], now)
                    = duration_seconds(objs[c.obj], now) )]_vars

\* C9: on a started streamer a start_stream for a chat no session occupies
\* adds one session to the registry, PENDING, and changes no other; the
\* call's next step moves it from PENDING to CONNECTING; and when
\* tgcalls.play returns the call marks it STREAMING and returns it, with the
\* value of the requested profile, started_at set to the time of the return
\* and reconnect_attempts 0.
C9_StartSucceeds ==
    [][ /\ \A ch \in Chats :
            ( /\ started /\ client /\ OccupiedBy(ch) = {}
              /\ \/ StartStream(ch, FALSE)
                 \/ \E c \in calls : c.chat = ch /\ StartResolved(c, TRUE) )
            => LET n == Len(objs) + 1 IN
               /\ Len(objs') = n
               /\ \A o \in DOMAIN objs : objs'[o] = objs[o]
               /\ objs'[n].status = "PENDING" /\ objs'[n].chat_id = ch
               /\ objs'[n].id \in DOMAIN reg' /\ reg'[objs'[n].id] = n
               /\ \A i \in DOMAIN reg : i # objs'[n].id => reg'[i] = reg[i]
        /\ \A c \in calls, src \in Sources :
            StartConnecting(c, src)
            => (objs[c.obj].status = "PENDING" /\ objs'[c.obj].status = "CONNECTING")
        /\ \A c \in calls :
            StartPlayDone(c, "ok")
            => LET s == objs'[c.obj] IN
               /\ ev' = Ret("start_stream", c.chat, "session", c.obj)
               /\ s.status = "STREAMING"
               /\ s.profile = ProfileValue(c.profile)
               /\ s.started_at = now /\ s.started_at # NoTime
               /\ s.reconnect_attempts = 0 ]_vars

\* start_stream has returned a session started with P720 at a time after
\* the streamer's construction
C9_Witness ==
    /\ ev.op = "start_stream" /\ ev.val = "session"
    /\ objs[ev.obj].status = "STREAMING" /\ objs[ev.obj].profile = "720p"
    /\ objs[ev.obj].started_at = now /\ now > 0
    /\ ev.obj \in Registered

\* start call c, its session created, ends this step by raising
StartFailed(c) ==
    /\ c.op = "start_stream" /\ c.obj # None /\ c \notin calls'
    /\ ev'.op = "start_stream" /\ ev'.obj = c.obj /\ ev'.val # "session"

C11_StartErrorsRecorded ==
    (ev.op = "start_stream" /\ ev.val \in {"ChatNotFoundError", "PermissionError"})
    => ( /\ ev.obj \in Registered
         /\ objs[ev.obj].status = "ERROR"
         /\ objs[ev.obj].last_error # "" )

\* what pause_stream (from STREAMING to PAUSED) and resume_stream (from
\* PAUSED to STREAMING) do in one step
PauseResumeContract(op, from, to) ==
    /\ \A i \in Ids :
        PauseResume(op, i, from, op)
        => IF i \in DOMAIN reg /\ objs[reg[i]].status = from /\ tgcalls
           THEN /\ ev' = Transport(op, objs[reg[i]].chat_id)
                /\ \E c \in calls' :
                      c.op = op /\ c.pc = "transport" /\ c.obj = reg[i]
           ELSE ev'.op = op /\ ev'.val = "False" /\ calls' = calls
    /\ \A c \in calls', i \in Ids :
        (c \notin calls /\ c.op = op /\ PauseResume(op, i, from, op))
        => (i \in DOMAIN reg /\ objs[reg[i]].status = from /\ tgcalls)
    /\ \A c \in calls :
        /\ PauseResumeDone(c, op, to, TRUE)
           => ( /\ ev' = Ret(op, objs[c.obj].id, "True", c.obj)
                /\ objs' = SetObj(c.obj, [objs[c.obj] EXCEPT !.status = to]) )
        /\ PauseResumeDone(c, op, to, FALSE)
           => (ev'.op = op /\ ev'.val = "False")
    /\ (ev.op = "none" /\ ev'.op = op /\ ev'.val = "True")
       => \E c \in calls \ calls' : c.op = op /\ c.obj = ev'.obj
    /\ (ev.op = "none" /\ ev'.op = op /\ ev'.val = "False")
       => UNCHANGED objs

\* C12: pause_stream suspends on the transport only for a registered
\* STREAMING session with a transport, and returns True, with the session set
\* PAUSED, only when that transport call returns; resume_stream likewise
\* from PAUSED to STREAMING; every other pause_stream or resume_stream
\* (unknown id, other status, no transport, transport raising) returns False
\* and changes no session.
C12_PauseResumeContract ==
    [][ /\ PauseResumeContract("pause_stream", "STREAMING", "PAUSED")
        /\ PauseResumeContract("resume_stream", "PAUSED", "STREAMING") ]_vars

\* resume_stream has returned True for a session it set STREAMING
C12_Witness ==
    /\ ev.op = "resume_stream" /\ ev.val = "True"
    /\ objs[ev.obj].status = "STREAMING"

\* C13: handle_disconnect on a STREAMING session, reconnection enabled,
\* leaves a retry loop registered for it and the session untouched; the
\* loop's first step makes the session RECONNECTING with reconnect_attempts
\* at least 1 (or has already ended in ERROR); and an attempt that succeeds
\* makes it STREAMING with reconnect_attempts 0.
C13_DisconnectThenReconnect ==
    [][ /\ \A o \in DOMAIN objs, e \in {"", "Test error"} :
            (objs[o].status = "STREAMING" /\ enabled /\ HandleDisconnect(o, e))
            => (HasTask(rtasks', objs[o].id) /\ objs' = objs)
        /\ \A t \in Slots :
            TaskStart(t)
            => LET s == objs'[tasks[t].obj] IN
               \/ s.status = "RECONNECTING" /\ s.reconnect_attempts >= 1
               \/ s.status = "ERROR" /\ tasks'[t].pc = "done"
        /\ \A t \in Slots, d \in BOOLEAN :
            TaskStartDone(t, "ok", d)
            => LET s == objs'[tasks[t].obj] IN
               s.status = "STREAMING" /\ s.reconnect_attempts = 0 ]_vars

\* the start function raised StreamConnectionError and the retry policy
\* stops: the loop of task t ends in this step
Exhausted(t) ==
    /\ \E d \in BOOLEAN : TaskStartDone(t, "StreamConnectionError", d)
    /\ tasks'[t].pc = "done"

\* C14: when the last retried attempt of a loop has failed, the loop ends
\* with the session ERROR, last_error the "Reconnection failed after all
\* attempts" message, and no task registered for the session id.
C14_ExhaustionMarksError ==
    [][\A t \in Slots :
          Exhausted(t)
          => LET s == objs'[tasks[t].obj] IN
             /\ s.status = "ERROR"
             /\ s.last_error = "Reconnection failed after all attempts"
             /\ ~HasTask(rtasks', s.id)]_vars

\* how far the loop of task record k has got: attempts made, and whether it
\* waits for the next one
Progress(k) == 2 * k.attempt + (IF k.pc = "sleep" THEN 1 ELSE 0)
\* the cap on error_count stops the model, not the program
Capped(t) ==
    tasks[t].obj # None /\ objs[tasks[t].obj].error_count >= MaxErrors

Live == {t \in Slots : tasks[t].pc # "done"}

\* C16: at any time at most one retry loop is alive for a session id: no two
\* live loop tasks work on sessions with the same id.
C16_OneLoopPerSession ==
    \A t, u \in Live :
        objs[tasks[t].obj].id = objs[tasks[u].obj].id => t = u

\* C17: a handle_disconnect made with reconnection disabled, or for a session
\* whose reconnect_attempts have reached reconnect_max_attempts, launches no
\* retry loop and leaves the session ERROR, with last_error the given error
\* ("Disconnected" when none is given) in the first case and "Max
\* reconnection attempts reached" in the second.
C17_DisconnectWithoutRetry ==
    [][\A o \in DOMAIN objs, e \in {"", "Test error"} :
         ( /\ HandleDisconnect(o, e)
           /\ ~enabled \/ objs[o].reconnect_attempts >= ReconnectMaxAttempts )
         => /\ tasks' = tasks /\ rtasks' = rtasks
            /\ objs'[o].status = "ERROR"
            /\ objs'[o].last_error =
                 IF ~enabled THEN (IF e = "" THEN "Disconnected" ELSE e)
                 ELSE "Max reconnection attempts reached"]_vars

\* handle_disconnect has returned for a session that had used up its attempts
C17_Witness ==
    /\ ev.op = "handle_disconnect" /\ ev.obj \in DOMAIN objs
    /\ enabled
    /\ objs[ev.obj].status = "ERROR"
    /\ objs[ev.obj].last_error = "Max reconnection attempts reached"

\* C18: a cancel_reconnection that was made returns True or False, never an
\* exception, in whichever phase it found the loop, and once it has
\* returned no task is registered for its id; it returns False in the step
\* of the call exactly when no task is registered then.
C18_CancelNeverRaises ==
    /\ ev.op = "cancel_reconnection"
       => ev.val \in {"True", "False"} /\ ~is_reconnecting(ev.arg)
    /\ \A i \in Ids :
         ENABLED (CancelReconnection(i) /\ ev'.val = "False")
            => ~is_reconnecting(i)

\* the loop that call c awaits has run its finally block: the record that
\* named it is gone, so it was cancelled after its first step
CancelledMidFlight(c) ==
    ~\E k \in Range(rtasks) : k.id = c.id /\ k.task = c.task

\* C19: when a cancel_reconnection, made by a caller or by the manager's
\* stop, is over for a loop it cancelled mid-flight, every session that is
\* RECONNECTING has a retry loop registered.
C19_CancelLeavesNoReconnecting ==
    [][\A c \in calls :
         (CancelDone(c) /\ CancelledMidFlight(c))
         => \A o \in DOMAIN objs :
               objs'[o].status = "RECONNECTING" => HasTask(rtasks', objs'[o].id)]_vars

\* C20: ReconnectionManager.stop ends by returning, never by raising, in
\* whichever phase it finds the retry loops, and when it has ended no task
\* is registered.
C20_ManagerStopCompletes ==
    ev.op = "manager_stop" => ev.val = "None" /\ rtasks = <<>>

\* ReconnectionManager.stop has been called and is no longer running
StopReturned ==
    ~active /\ ~\E c \in calls : c.after = "manager_stop"

\* C21: once ReconnectionManager.stop is over, a handle_disconnect launches
\* no retry loop and leaves the session's status and reconnect_attempts as
\* they were, and no step of a retry loop changes them or calls the start
\* function.
C21_DisconnectRefusedAfterStop ==
    [][StopReturned =>
         /\ \A o \in DOMAIN objs, e \in {"", "Test error"} :
               HandleDisconnect(o, e)
               => /\ tasks' = tasks /\ rtasks' = rtasks
                  /\ objs'[o].status = objs[o].status
                  /\ objs'[o].reconnect_attempts = objs[o].reconnect_attempts
         /\ \A t \in Slots :
               TaskStart(t)
               => /\ tasks'[t].pc = "done"
                  /\ objs'[tasks[t].obj].status = objs[tasks[t].obj].status
                  /\ objs'[tasks[t].obj].reconnect_attempts
                       = objs[tasks[t].obj].reconnect_attempts]_vars

\* C22: with TelegramStreamer.start_stream as the manager's start function
\* and the manager active, an attempt of a retry loop either goes to the
\* call transport, whose answer decides it, or leaves the loop's own session
\* STREAMING with no session added to the registry.
C22_ReconnectInPlace ==
    [][\A t \in Slots :
         (wiring = "registry" /\ active /\ (TaskStart(t) \/ TaskWake(t)))
         => \/ ev'.tfn # ""
            \/ /\ objs'[tasks[t].obj].status = "STREAMING"
               /\ Len(objs') = Len(objs) /\ reg' = reg]_vars

\* C23: a session that is STREAMING has reconnect_attempts 0, whichever
\* way it became STREAMING.
C23_StreamingHasNoAttempts ==
    \A o \in DOMAIN objs :
        objs[o].status = "STREAMING" => objs[o].reconnect_attempts = 0

\* C24: observed at the clock of each state, the duration of a session is 0
\* while started_at is unset, does not decrease over a step once started_at
\* is set, and does not change over a step once stopped_at is set.
C24_DurationMonotone ==
    [][\A o \in DOMAIN objs :
         LET before == duration_seconds(objs[o], now)
             after == duration_seconds(objs'[o], now') IN
         /\ objs[o].started_at = NoTime => before = 0
         /\ objs[o].started_at # NoTime => after >= before
         /\ objs[o].stopped_at # NoTime => after = before]_vars

\* the sessions of the registry other than a
Others(a) == Registered \ {a}

\* C25: a step of stop_stream, pause_stream or resume_stream for session id
\* A changes no field of any other session of the registry, and the call it
\* makes the transport leave, pause or resume is not the call of the chat
\* another session is STREAMING into.
C25_SessionsIndependent ==
    [][/\ \A i \in DOMAIN reg :
            (StopStream(i) \/ PauseStream(i) \/ ResumeStream(i))
            => \A b \in Others(reg[i]) :
                  /\ objs'[b] = objs[b]
                  /\ ev'.tfn # ""
                     => ~(objs[b].chat_id = ev'.tchat /\ objs[b].status = "STREAMING")
       /\ \A c \in calls :
            (StopLeaveDone(c) \/ \E ok \in BOOLEAN : PauseDone(c, ok) \/ ResumeDone(c, ok))
            => \A b \in Others(c.obj) : objs'[b] = objs[b]]_vars

\* C26: every session start_stream has created is the one get_session
\* returns for its id: no two sessions were given the same id and none was
\* replaced in or removed from the registry.
C26_IdsUnique ==
    \A o \in DOMAIN objs : get_session(objs[o].id) = o

ActiveStatus == {"STREAMING", "PAUSED", "RECONNECTING"}
NoRepeat(l) == Cardinality(Range(l)) = Len(l)
ReadOnly == UNCHANGED <<regVars, objs, calls, now, mgrVars, cfgVars, sideVars>>

\* C27: get_active_sessions returns, each once, the sessions of the
\* registry that are STREAMING, PAUSED or RECONNECTING, get_all_sessions
\* every session of the registry, get_session the registry's session with
\* the id asked for or None when there is none; and none of them changes
\* anything.
C27_GettersReadOnly ==
    [][/\ GetActiveSessions
          => /\ Range(ev'.list) =
                  {o \in Registered : objs[o].status \in ActiveStatus}
             /\ NoRepeat(ev'.list) /\ ReadOnly
       /\ GetAllSessions
          => Range(ev'.list) = Registered /\ NoRepeat(ev'.list) /\ ReadOnly
       /\ \A i \in Ids :
            GetSession(i)
            => /\ IF \E o \in Registered : objs[o].id = i
                  THEN ev'.obj \in Registered /\ objs[ev'.obj].id = i
                  ELSE ev'.obj = None
               /\ ReadOnly]_vars

\* get_active_sessions has returned a paused session
C27_Witness ==
    /\ ev.op = "get_active_sessions"
    /\ \E k \in DOMAIN ev.list : objs[ev.list[k]].status = "PAUSED"

\* C28: when TelegramStreamer.stop has returned the streamer is not started
\* and every session of the registry is STOPPED; a start_stream made while
\* the streamer is not started raises StreamConnectionError and creates no
\* session; a start made while it is started returns without starting the
\* client.
C28_RegistryLifecycle ==
    /\ []((ev.op = "stop" /\ ev.val = "None")
          => (~started /\ \A o \in Registered : objs[o].status = "STOPPED"))
    /\ [][/\ \A ch \in Chats, n \in BOOLEAN :
              (~started /\ StartStream(ch, n))
              => /\ ev'.val = "StreamConnectionError:not started"
                 /\ objs' = objs /\ reg' = reg /\ calls' = calls
         /\ (started /\ RegStart)
            => UNCHANGED <<client, tgcalls, started, calls>>]_vars

\* the _monitor_loop tasks that have not ended and are not being cancelled
MonLive == {t \in MonSlots : mtasks[t].pc # "done" /\ ~mtasks[t].cancel}

\* C29: at most one _monitor_loop task is at work; a start made while the
\* monitor is active creates no task; a stop returns without raising, and
\* when it has returned the monitor is inactive, holds no task and no
\* _monitor_loop task is at work.
C29_OneMonitorTask ==
    /\ [](Cardinality(MonLive) <= 1)
    /\ []((ev.op = "monitor_stop")
          => /\ ev.val = "None"
             /\ ~monitor_active /\ monitor_task = None /\ MonLive = {})
    /\ [][(monitor_active /\ MonStart) => UNCHANGED monVars]_vars

\* C30: FFmpegWrapper.stop(), called on a wrapper that was never started,
\* that runs, whose process has exited or that was stopped already, returns
\* without raising; when it returns the wrapper holds no process, is_running
\* is false and the process it held has had terminate() and has been reaped;
\* kill() is only ever called on a process that had terminate() before, by a
\* stop() whose grace period ran out with the process still alive.
C30_StopGraceful ==
    /\ []((ev.op = "ffmpeg_stop")
          => /\ ev.val = "None"
             /\ process = None /\ ~is_running
             /\ (ev.arg # None)
                  => procs[ev.arg].state = "exited" /\ procs[ev.arg].term)
    /\ [][\A p \in Procs :
            (procs'[p].kill /\ ~procs[p].kill)
            => /\ procs[p].term /\ procs[p].state = "alive"
               /\ \E c \in calls :
                    c.op = "ffmpeg_stop" /\ c.pc = "wait" /\ c.proc = p]_vars
\* a stop() has returned whose process outlived the grace period and was
\* killed
C30_Witness ==
    /\ ev.op = "ffmpeg_stop" /\ ev.arg # None
    /\ procs[ev.arg].kill /\ procs[ev.arg].state = "exited"

\* the host of a url: what follows "://" (or the start of the url) up to the
\* next "/", "?" or "#"
HostStart(s) ==
    LET at == {i \in 1..(Len(s) - 2) : SubSeq(s, i, i + 2) = <<":", "/", "/">>}
    IN  IF at = {} THEN 1
        ELSE 3 + CHOOSE i \in at : \A j \in at : i <= j
HostEnd(s) ==
    LET stops == {j \in HostStart(s)..Len(s) : s[j] \in {"/", "?", "#"}}
    IN  IF stops = {} THEN Len(s)
        ELSE (CHOOSE j \in stops : \A k \in stops : j <= k) - 1
HostOf(s) == SubSeq(s, HostStart(s), HostEnd(s))
\* the classification by the rules in their order, on the url in lower case
Classified(u) ==
    LET l == lower(u) IN
    IF Contains(HostOf(l), YoutubeCom) \/ Contains(HostOf(l), YoutuBe)
    THEN "YOUTUBE"
    ELSE IF endswith(l, DotM3u) THEN "M3U"
    ELSE IF endswith(l, DotM3u8) \/ Contains(l, SlashHls) THEN "HLS"
    ELSE IF startswith(l, RtmpScheme) \/ startswith(l, RtmpsScheme)
    THEN "RTMP"
    ELSE "HLS"
\* C31: detect_type returns, for every url, a source that carries the url
\* unchanged and the kind the rules give in their order of priority, read on
\* the url in lower case: a video platform host gives YOUTUBE, then the
\* ending ".m3u" gives M3U, then the ending ".m3u8" or "/hls/" gives HLS,
\* then the scheme rtmp or rtmps gives RTMP, and anything else gives HLS.
C31_ClassificationByRules ==
    (source # NoSource)
    => /\ source.url = url
       /\ source.stream_type = Classified(url)

\* C32: on a session in any state, mark_reconnecting sets RECONNECTING and
\* adds exactly one to reconnect_attempts; mark_streaming sets STREAMING and
\* puts reconnect_attempts back to 0; mark_error sets ERROR, adds exactly one
\* to error_count and puts the message given in last_error; each of them
\* leaves the counters it is not about as they were.
C32_MarksCount ==
    [][\A o \in DOMAIN objs :
         /\ (ev'.op = "mark_reconnecting" /\ ev'.obj = o)
            => /\ objs'[o].status = "RECONNECTING"
               /\ objs'[o].reconnect_attempts = objs[o].reconnect_attempts + 1
               /\ objs'[o].error_count = objs[o].error_count
               /\ objs'[o].last_error = objs[o].last_error
         /\ (ev'.op = "mark_streaming" /\ ev'.obj = o)
            => /\ objs'[o].status = "STREAMING"
               /\ objs'[o].reconnect_attempts = 0
               /\ objs'[o].error_count = objs[o].error_count
               /\ objs'[o].last_error = objs[o].last_error
         /\ (ev'.op = "mark_error" /\ ev'.obj = o)
            => /\ objs'[o].status = "ERROR"
               /\ objs'[o].error_count = objs[o].error_count + 1
               /\ objs'[o].last_error = ev'.arg
               /\ objs'[o].reconnect_attempts = objs[o].reconnect_attempts
      ]_vars
\* a session that had failed and reconnected before has been marked
\* reconnecting once more
C32_Witness ==
    /\ ev.op = "mark_reconnecting"
    /\ objs[ev.obj].reconnect_attempts = MaxErrors + 1
    /\ objs[ev.obj].error_count > 0

\* C33: when the start function of an attempt raises an error that is
\* neither StreamConnectionError nor StreamSourceError, the loop ends at
\* once: it makes no further attempt, the session is ERROR with that error
\* in last_error and one more in error_count, and the record of the session
\* is gone from _reconnect_tasks; a loop goes on to its backoff wait only
\* after a connection or source error.
C33_OtherErrorsNotRetried ==
    [][\A t \in Slots :
         /\ (\E d \in BOOLEAN : TaskStartDone(t, "Exception", d))
            => LET o == tasks[t].obj IN
               /\ tasks'[t].pc = "done"
               /\ objs'[o].status = "ERROR"
               /\ objs'[o].last_error = StrE
               /\ objs'[o].error_count = objs[o].error_count + 1
               /\ ~HasTask(rtasks', objs[o].id)
         /\ (tasks[t].pc = "inStart" /\ tasks'[t].pc = "sleep")
            => TaskStartDone(t, "StreamConnectionError", FALSE)
      ]_vars
\* a loop has ended on its first attempt, short of the maximum, with the
\* session marked ERROR
C33_Witness ==
    /\ wiring = "stub" /\ rtasks = <<>>
    /\ \A t \in Slots : tasks[t].pc = "done"
    /\ \E o \in DOMAIN objs :
         /\ objs[o].status = "ERROR" /\ objs[o].last_error = StrE
         /\ objs[o].reconnect_attempts = 1
         /\ objs[o].reconnect_attempts < ReconnectMaxAttempts

\* C34: the loop adds one to reconnect_attempts when it marks the session
\* RECONNECTING and again at every attempt it makes: behind the entry and the
\* first attempt the count is more than one above what it was, and every
\* later attempt on a session that is RECONNECTING leaves it above what it
\* was.
C34_AttemptsIncrease ==
    [][\A t \in Slots :
         LET o == tasks[t].obj IN
         /\ (active /\ TaskStart(t))
            => objs'[o].reconnect_attempts > objs[o].reconnect_attempts + 1
         /\ (active /\ TaskWake(t) /\ objs[o].status = "RECONNECTING")
            => objs'[o].reconnect_attempts > objs[o].reconnect_attempts
      ]_vars

\* C35: at every tick of the health monitor, a registered session that is
\* STREAMING or PAUSED and whose stream has broken down is handed to
\* handle_disconnect, so that a retry loop is registered for it, and the
\* tick leaves every registered session of another status as it was.
C35_TickReconnects ==
    [][\A t \in MonSlots : MonTick(t) =>
         \A k \in DOMAIN monitored :
            LET o == monitored[k] IN
            /\ (objs[o].status \in {"STREAMING", "PAUSED"} /\ o \in down)
               => HasTask(rtasks', objs[o].id)
            /\ (objs[o].status \notin {"STREAMING", "PAUSED"})
               => objs'[o] = objs[o]
      ]_vars

\* the value that follows option o in a command
HasOpt(args, o) == \E i \in DOMAIN args : args[i] = <<o>>
ValueOf(args, o) == args[(CHOOSE i \in DOMAIN args : args[i] = <<o>>) + 1]
\* the catalog of the profiles: size and video bitrate
CatalogSize(pr) ==
    CASE pr = "P480" -> <<"scale=", "8", "5", "4", ":", "4", "8", "0">>
      [] pr = "P720" -> <<"scale=", "1", "2", "8", "0", ":", "7", "2", "0">>
      [] pr = "P1080" -> <<"scale=", "1", "9", "2", "0", ":", "1", "0", "8", "0">>
CatalogRate(pr) ==
    CASE pr = "P480" -> <<"1", "5", "0", "0", "k">>
      [] pr = "P720" -> <<"3", "0", "0", "0", "k">>
      [] pr = "P1080" -> <<"5", "0", "0", "0", "k">>

\* C38: build_command() returns a command that is determined by the source
\* kind and the profile: the reconnect options are in it exactly for HLS,
\* M3U8 and M3U, the RTMP-live option exactly for RTMP; video and audio are
\* copied exactly for AUTO, and otherwise the video is encoded at the size
\* and bitrate of the profile, 30 frames per second and a keyframe every 60
\* frames, and the audio at 128k, 48 kHz, two channels; the command ends with
\* the flushed MPEG-TS output on the pipe.
C38_BuildCommand ==
    cmd # NoCmd =>
      LET a == cmd.args
          k == wrapper.stream_type
          pr == wrapper.profile
      IN  /\ cmd.raised = ""
          /\ HasOpt(a, "-reconnect") <=> k \in {"HLS", "M3U8", "M3U"}
          /\ HasOpt(a, "-reconnect_streamed") <=> k \in {"HLS", "M3U8", "M3U"}
          /\ HasOpt(a, "-reconnect_delay_max") <=> k \in {"HLS", "M3U8", "M3U"}
          /\ HasOpt(a, "-rtmp_live") <=> k = "RTMP"
          /\ HasOpt(a, "-c:v") /\ HasOpt(a, "-c:a")
          /\ (ValueOf(a, "-c:v") = <<"copy">>) <=> pr = "AUTO"
          /\ (ValueOf(a, "-c:a") = <<"copy">>) <=> pr = "AUTO"
          /\ pr # "AUTO" =>
               /\ HasOpt(a, "-vf") /\ ValueOf(a, "-vf") = CatalogSize(pr)
               /\ HasOpt(a, "-b:v") /\ ValueOf(a, "-b:v") = CatalogRate(pr)
               /\ HasOpt(a, "-r") /\ ValueOf(a, "-r") = <<"3", "0">>
               /\ HasOpt(a, "-g") /\ ValueOf(a, "-g") = <<"6", "0">>
               /\ HasOpt(a, "-b:a") /\ ValueOf(a, "-b:a") = <<"128k">>
               /\ HasOpt(a, "-ar") /\ ValueOf(a, "-ar") = <<"48000">>
               /\ HasOpt(a, "-ac") /\ ValueOf(a, "-ac") = <<"2">>
          /\ Len(a) >= 5
          /\ SubSeq(a, Len(a) - 4, Len(a))
               = <<<<"-f">>, <<"mpegts">>, <<"-flush_packets">>, <<"1">>,
                   <<"pipe:1">>>>

\* the generators that have ended having read the output of process p
EndedOn(p, whys) ==
    {g \in DOMAIN readers :
       readers[g].pc = "done" /\ readers[g].proc = p /\ readers[g].why \in whys}
\* read_stream() within one call: the chunks of a process come out in the
\* order of its output; a generator that has ended stays ended and yields
\* nothing; a read is only begun while the running flag is set; an end by
\* cancellation or by a read error is the end of the sequence, not an
\* exception; the call raises FFmpegError exactly when there is no process
ReadStreamInOrder ==
    /\ [](\A i \in DOMAIN yielded :
            yielded[i].n
              = Cardinality({j \in 1..i : yielded[j].proc = yielded[i].proc}))
    /\ [](ev.op = "read_stream" /\ ev.val # "chunk" /\ ev.val # "FFmpegError"
          => /\ readers[ev.arg].pc = "done"
             /\ readers[ev.arg].why \in {"eof", "stopped", "cancel", "error"}
             /\ ev.val = "StopAsyncIteration")
    /\ [][\A g \in DOMAIN readers :
            readers[g].pc = "done"
            => /\ readers'[g] = readers[g]
               /\ \A i \in DOMAIN yielded' \ DOMAIN yielded :
                    yielded'[i].gen # g]_vars
    /\ [][\A g \in DOMAIN readers' :
            (readers'[g].pc = "read"
             /\ (g \notin DOMAIN readers \/ readers[g].pc # "read"))
            => running]_vars
    /\ [][Len(readers') > Len(readers)
          => (process = None <=> ev'.val = "FFmpegError")]_vars

C39_StoppedAfterStarted ==
    \A o \in DOMAIN objs :
       /\ (objs[o].started_at # NoTime /\ objs[o].stopped_at # NoTime)
            => objs[o].stopped_at >= objs[o].started_at
       /\ duration_seconds(objs[o], now) >= 0

\* the sessions of the registry that are active on chat ch
ActiveOn(ch) ==
    {o \in Registered : objs[o].chat_id = ch /\ objs[o].status \in ActiveStatus}

\* C40: in every state, for every chat at most one session of the registry
\* with that chat_id is STREAMING, PAUSED or RECONNECTING; a start_stream for
\* the chat of a PAUSED session gives no second one.
C40_OneActivePerTarget ==
    \A ch \in Chats : Cardinality(ActiveOn(ch)) <= 1

====
